---- MODULE Spec2Model ----
(***************************************************************************)
(* learnMSA: the training / model-surgery driver (msa_hmm/Align.py), the   *)
(* sequence files (SequenceDataset.py) and the HMM cell (MsaHmmCell.py).   *)
(*                                                                         *)
(* The specifications of this module:                                      *)
(*   Spec           fit_and_align, one action per step of its loop         *)
(*   SpecRun        run_learnMSA, one action per step                      *)
(*   SpecKernels    update_kernels / extend_mods / apply_mods              *)
(*   SpecMods       single calls of apply_mods and extend_mods             *)
(*   SpecPositions  get_discard_or_expand_positions                        *)
(*   SpecDecode     decode_core, decode_flank and decode over any paths    *)
(*   SpecAlignment  an Alignment object and its metadata cache             *)
(*   SpecRender     decode and rendering of an Alignment over any paths    *)
(*   SpecDecodeLoop / LiveDecodeLoop  decode, pass by pass of its loops     *)
(*   SpecInsertionBlock  single calls of get_insertion_block                *)
(*   SpecDataset    SequenceDataset and AlignedDataset                      *)
(*   SpecCell       MsaHmmCell: recurrent_init, get_initial_state, call     *)
(* Arrays are sequences; numpy's 0-based positions are kept as values and  *)
(* shifted by one only where a sequence is indexed.                        *)
(***************************************************************************)
EXTENDS Integers, Sequences, FiniteSets, TLC

\* ------------------------------------------------------------------ bounds
MaxN == 3          \* sequences in the input file
MaxRuns == 3       \* largest config["max_surgery_runs"]
MaxBatch == 2      \* largest configured / adaptive batch size
MaxModelLen == 4   \* model lengths are explored up to this length
MaxExpansion == 3  \* most columns an edit plan inserts in total
MaxSeqs == 2        \* sequences decoded by an Alignment
MaxSeqLen == 3      \* residues of a decoded sequence
MaxPathLen == 4     \* residues on a Viterbi path given to decode_core
MaxHitSeqs == 5     \* sequences of an alignment given to get_discard_or_expand_positions
MaxRecords == 3     \* records of a sequence file
MaxResidues == 3    \* characters of a sequence given to get_encoded_seq
MaxThreads == 2     \* worker processes of the pool of an AlignedDataset
MaxScanLen == 3     \* steps of a scan of the cell
MaxDecodeLen == 5   \* residues of a sequence whose state path decode walks

\* ------------------------------------------------------------------ helpers
Min(a, b) == IF a < b THEN a ELSE b
Max(a, b) == IF a > b THEN a ELSE b

\* np.arange(n)
arange(n) == [j \in 1..n |-> j - 1]

RECURSIVE SumSeq(_)
SumSeq(s) == IF s = <<>> THEN 0 ELSE Head(s) + SumSeq(Tail(s))

RECURSIVE SeqMax(_)
\* np.amax of a non-empty array
SeqMax(s) == IF Len(s) = 1 THEN s[1] ELSE Max(Head(s), SeqMax(Tail(s)))

\* the elements of a sequence
Elems(s) == {s[j] : j \in DOMAIN s}

\* the ascending array of the members of a set of integers
RECURSIVE SortedSeq(_)
SortedSeq(S) ==
    IF S = {} THEN <<>>
    ELSE LET m == CHOOSE x \in S : \A y \in S : x <= y
         IN  <<m>> \o SortedSeq(S \ {m})

\* v repeated c times
Repeat(v, c) == [j \in 1..c |-> v]

\* ------------------------------------------------------------------ apply_mods
\* default of apply_mods' del_marker argument
DEL_MARKER == -9999

NormIndex_next(p, N) == IF p < 0 THEN p + N ELSE p + 1

\* numpy index normalisation: a negative index counts from the end
NormIndex(p, N) == IF p < 0 THEN p + N ELSE p

\* apply_mods raises: x[pos_discard] needs indices in [-N, N-1], np.repeat needs
\* one non-negative count per position, np.insert needs indices in [-N, N]
apply_mods_raises(x, pos_expand, expansion_lens, pos_discard) ==
    LET N == Len(x) IN
    \/ \E t \in DOMAIN pos_discard : pos_discard[t] < -N \/ pos_discard[t] > N - 1
    \/ Len(pos_expand) # Len(expansion_lens)
    \/ \E t \in DOMAIN expansion_lens : expansion_lens[t] < 0
    \/ \E t \in DOMAIN pos_expand :
          expansion_lens[t] > 0 /\ (pos_expand[t] < -N \/ pos_expand[t] > N)

RECURSIVE InsertCount(_, _, _, _)
\* how many values np.insert places before original position p
InsertCount(pos_expand, expansion_lens, p, N) ==
    IF pos_expand = <<>> THEN 0
    ELSE (IF NormIndex(Head(pos_expand), N) = p THEN Head(expansion_lens) ELSE 0)
         + InsertCount(Tail(pos_expand), Tail(expansion_lens), p, N)

RECURSIVE InsertFrom(_, _, _, _, _)
\* np.insert(x, np.repeat(pos_expand, expansion_lens), insert_value) from position p on
InsertFrom(x, pos_expand, expansion_lens, insert_value, p) ==
    LET N == Len(x)
        ins == Repeat(insert_value, InsertCount(pos_expand, expansion_lens, p, N))
    IN  IF p >= N THEN ins
        ELSE ins \o <<x[p + 1]>> \o InsertFrom(x, pos_expand, expansion_lens, insert_value, p + 1)

apply_mods_no_discard(x, pos_expand, expansion_lens, pos_discard, insert_value, del_marker) ==
    InsertFrom(x, pos_expand, expansion_lens, insert_value, 0)

\* lines 654-665 for a vector x
apply_mods(x, pos_expand, expansion_lens, pos_discard, insert_value, del_marker) ==
    LET N == Len(x)
        D == {NormIndex(pos_discard[t], N) : t \in DOMAIN pos_discard}
        marked == [j \in 1..N |-> IF (j - 1) \in D THEN del_marker ELSE x[j]]
        inserted == InsertFrom(marked, pos_expand, expansion_lens, insert_value, 0)
    IN  SelectSeq(inserted, LAMBDA v : v # del_marker)


\* ------------------------------------------------------------------ fit_and_align
VARIABLES
    config,                 \* the configuration passed to fit_and_align
    fasta_file,             \* the sequence file: num_seq, seq_lens, sorted_indices, ...
    subset,                 \* the subset argument: given = FALSE stands for None
    full_length_estimate,
    model_lengths,          \* one length per ensemble member (member k at index k+1)
    last_iteration,
    i,                      \* loop variable of the surgery loop
    batch_size,
    train_indices,
    decode_indices,
    epochs_this_iteration,
    alignment,              \* the Alignment object (of the current round in fit_and_align)
    surgery_converged,
    k,                      \* next ensemble member of the surgery loop
    pc,                     \* position in fit_and_align
    trained,                \* the round that was trained last: what train.fit_model got
    result,                 \* the returned Alignment
    state_seqs_max_lik,     \* SpecAlignment: the Viterbi paths of the Alignment's model
    call,                   \* SpecAlignment: the last operation on the Alignment and its result
    surgery,                \* SpecKernels: model length and edit plan given to update_kernels
    kernels,                \* SpecKernels: what update_kernels returned
    run,                    \* SpecRun: the arguments and the position of run_learnMSA
    decoder,                \* SpecDecode: a call of decode_core / decode_flank and its result
    mods,                   \* SpecMods: a call of apply_mods / extend_mods and its result
    positions,              \* SpecPositions: a call of get_discard_or_expand_positions
    dataset,                \* SpecDataset: a SequenceDataset / AlignedDataset and the call on it
    cell,                   \* SpecCell: an MsaHmmCell and the state its scan carries
    ins_block,              \* SpecInsertionBlock: a call of get_insertion_block and its block
    decode_call                \* SpecDecodeLoop: a call of decode, loop pass by loop pass

faVars == <<config, subset, full_length_estimate, model_lengths, last_iteration,
            i, batch_size, train_indices, decode_indices, epochs_this_iteration,
            surgery_converged, k, pc, trained, result>>

alVars == <<state_seqs_max_lik, call>>

ukVars == <<surgery, kernels>>

dsVars == <<dataset, cell, ins_block, decode_call>>

pfVars == <<run, decoder, mods, positions, dsVars>>

vars == <<faVars, fasta_file, alignment, alVars, ukVars, pfVars>>

\* a local that has not been assigned yet
Unset == [unset |-> TRUE]

\* Fasta.sorted_indices: the sequence indices in ascending order of length (stable)
RECURSIVE argsort(_, _)
argsort(seq_lens, todo) ==
    IF todo = {} THEN <<>>
    ELSE LET m == CHOOSE x \in todo : \A y \in todo :
                      \/ seq_lens[x + 1] < seq_lens[y + 1]
                      \/ seq_lens[x + 1] = seq_lens[y + 1] /\ x <= y
         IN  <<m>> \o argsort(seq_lens, todo \ {m})

Fasta(seq_lens) ==
    [num_seq |-> Len(seq_lens),
     seq_lens |-> seq_lens,
     max_len |-> SeqMax(seq_lens),
     sorted_indices |-> argsort(seq_lens, 0..(Len(seq_lens) - 1))]

\* get_adaptive_batch_size(model_lengths, max_len): a positive batch size that does
\* not depend on the number of sequences
get_adaptive_batch_size == 1..MaxBatch

\* lines 856-859: k, the number of sequences the estimate leaves out; surgery_quantile
\* is the fraction q[1]/q[2]
full_length_k(ff, cfg) ==
    LET n == ff.num_seq
    IN  Min((n * cfg.surgery_quantile[1]) \div cfg.surgery_quantile[2],
            Max(0, n - cfg.min_surgery_seqs))

get_full_length_estimate_head(ff, cfg) ==
    SubSeq(ff.sorted_indices, 1, ff.num_seq - full_length_k(ff, cfg))

\* line 861: sorted_indices[k:]
get_full_length_estimate(ff, cfg) ==
    SubSeq(ff.sorted_indices, full_length_k(ff, cfg) + 1, ff.num_seq)

\* cfg.init_len_x10 is quantile(seq_lens, length_init_quantile) * len_mul in tenths
get_initial_model_lengths(cfg) ==
    Repeat(Max(3, cfg.init_len_x10 \div 10), cfg.num_models)

\* Alignment._build_alignment(models): decoded[m] is AlignmentMetaData(*decode(...)) of model m
build_alignment(metadata, models, decoded) ==
    [m \in (DOMAIN metadata) \cup models |-> IF m \in models THEN decoded[m] ELSE metadata[m]]

\* Alignment.__init__: the metadata after construction
Alignment_init(build, num_models, decoded) ==
    IF build = "eager"
    THEN build_alignment(<<>>, 0..(num_models - 1), decoded)
    ELSE <<>>

\* the build argument fit_and_align passes to Alignment
build_mode_swapped(last) == IF last THEN "eager" ELSE "lazy"

build_mode(last) == IF last THEN "lazy" ELSE "eager"

\* lines 53-58: the sequences a round trains on and decodes
select_indices_final_on_estimate(last, n, subset_ids, fle) ==
    [train_indices |-> fle, decode_indices |-> IF last THEN subset_ids ELSE fle]

select_indices(last, n, subset_ids, fle) ==
    IF last
    THEN [train_indices |-> arange(n), decode_indices |-> subset_ids]
    ELSE [train_indices |-> fle, decode_indices |-> fle]

\* int(np.ceil(n*0.5))
batch_cap(n, train) == (n + 1) \div 2

\* index into config["epochs"] (0-based)
epochs_index_final_first(ii, last) == IF last THEN 2 ELSE IF ii = 0 THEN 0 ELSE 1

epochs_index(ii, last) == IF ii = 0 THEN 0 ELSE IF ~last THEN 1 ELSE 2

\* last_iteration for the next round
next_last_iteration_converged_only(converged, ii, max_surgery_runs) == converged

next_last_iteration(converged, ii, max_surgery_runs) ==
    converged \/ (ii = max_surgery_runs - 2)

\* the length check after a member's surgery
model_too_short_never(len) == FALSE

model_too_short(len) == len < 3

\* update_kernels' emission_init[0] for a model of length L: one row per match state,
\* a negative row for each match state the plan adds (model_lengths[k] is its row count)
update_emission(L, plan) ==
    apply_mods(arange(L), plan.pos_expand, plan.expansion_lens, plan.pos_discard, -1, DEL_MARKER)

\* the edit plans get_discard_or_expand_positions is drawn from in fit_and_align: no edit,
\* one expansion by 1 at the first or last position, one discard of the first or last column
SurgeryPlans(L) ==
    { [pos_expand |-> e, expansion_lens |-> Repeat(1, Len(e)), pos_discard |-> d] :
        e \in {<<>>, <<0>>, <<L>>},
        d \in {<<>>, <<0>>, <<L - 1>>} }

\* the length patterns of the input file: equal lengths, and descending lengths
SeqLenChoices(n) == {Repeat(1, n), [j \in 1..n |-> n + 1 - j]}

Configs ==
    { [max_surgery_runs |-> r,
       num_models |-> nm,
       batch_size |-> b,
       epochs |-> <<10, 2, 5>>,
       surgery_quantile |-> s[1],
       min_surgery_seqs |-> s[2],
       init_len_x10 |-> x] :
       r \in 1..MaxRuns,
       nm \in 1..2,
       b \in {[kind |-> "adaptive"]} \cup {[kind |-> "int", value |-> v] : v \in 1..MaxBatch},
       s \in {<<<<0, 1>>, 0>>, <<<<1, 2>>, 0>>, <<<<1, 2>>, 2>>},
       x \in {25, 47} }

\* the variables a specification does not use
AlIdle == state_seqs_max_lik = Unset /\ call = Unset
UkIdle == surgery = Unset /\ kernels = Unset
DsIdle == dataset = Unset /\ cell = Unset /\ ins_block = Unset /\ decode_call = Unset

PfIdle == run = Unset /\ decoder = Unset /\ mods = Unset /\ positions = Unset /\ DsIdle

FaInit ==
    /\ config \in Configs
    /\ \E n \in 1..MaxN :
          /\ \E seq_lens \in SeqLenChoices(n) : fasta_file = Fasta(seq_lens)
          /\ subset \in {[given |-> FALSE]} \cup
                        {[given |-> TRUE, ids |-> ids] : ids \in {<<>>, <<0>>, <<n - 1>>}}
    /\ full_length_estimate = Unset
    /\ model_lengths = Unset
    /\ last_iteration = Unset
    /\ i = Unset
    /\ batch_size = Unset
    /\ train_indices = Unset
    /\ decode_indices = Unset
    /\ epochs_this_iteration = Unset
    /\ alignment = Unset
    /\ surgery_converged = Unset
    /\ k = Unset
    /\ pc = "start"
    /\ trained = Unset
    /\ result = Unset
    /\ AlIdle
    /\ UkIdle
    /\ PfIdle

\* lines 34-45: defaults, the full-length estimate, the initial lengths
Start ==
    /\ pc = "start"
    /\ subset' = IF subset.given THEN subset
                 ELSE [given |-> FALSE, ids |-> arange(fasta_file.num_seq)]
    /\ full_length_estimate' = get_full_length_estimate(fasta_file, config)
    /\ model_lengths' = get_initial_model_lengths(config)
    /\ last_iteration' = (config.max_surgery_runs = 1)
    /\ i' = 0
    /\ pc' = IF 0 < config.max_surgery_runs THEN "loop" ELSE "done"
    /\ UNCHANGED <<config, fasta_file, batch_size, train_indices, decode_indices,
                   epochs_this_iteration, alignment, surgery_converged, k, trained, result>>
    /\ UNCHANGED <<alVars, ukVars, pfVars>>

\* lines 46-74: batch size, indices, epochs, fit_model and the Alignment of round i
FitRound ==
    /\ pc = "loop"
    /\ \E adaptive \in get_adaptive_batch_size :
       \E sel \in {select_indices(last_iteration, fasta_file.num_seq, subset.ids,
                                  full_length_estimate)} :
          LET n == fasta_file.num_seq
              bs0 == IF config.batch_size.kind = "adaptive" THEN adaptive
                     ELSE config.batch_size.value
              bs == Min(bs0, batch_cap(n, sel.train_indices))
              ep == config.epochs[epochs_index(i, last_iteration) + 1]
              build == build_mode(last_iteration)
              decoded == [m \in 0..(config.num_models - 1) |-> [model |-> m, round |-> i]]
              metadata == Alignment_init(build, config.num_models, decoded)
          IN  /\ batch_size' = bs
              /\ train_indices' = sel.train_indices
              /\ decode_indices' = sel.decode_indices
              /\ epochs_this_iteration' = ep
              /\ alignment' = [indices |-> sel.decode_indices,
                               batch_size |-> bs,
                               num_models |-> config.num_models,
                               round |-> i,
                               scored |-> FALSE,
                               metadata |-> metadata]
              /\ trained' = [i |-> i,
                              last_iteration |-> last_iteration,
                              model_lengths |-> model_lengths,
                              train_indices |-> sel.train_indices,
                              decode_indices |-> sel.decode_indices,
                              batch_size |-> bs,
                              epochs |-> ep,
                              decoded_at_construction |-> DOMAIN metadata,
                              converged_before |-> surgery_converged]
    /\ pc' = IF last_iteration THEN "final" ELSE "surgery"
    /\ k' = 0
    /\ surgery_converged' = IF last_iteration THEN surgery_converged ELSE TRUE
    /\ UNCHANGED <<config, fasta_file, subset, full_length_estimate, model_lengths,
                   last_iteration, i, result>>
    /\ UNCHANGED <<alVars, ukVars, pfVars>>

\* lines 75-82: the final round scores the alignment and leaves the loop
Finalize ==
    /\ pc = "final"
    /\ alignment' = [alignment EXCEPT !.scored = TRUE]
    /\ result' = alignment'
    /\ pc' = "done"
    /\ UNCHANGED <<config, fasta_file, subset, full_length_estimate, model_lengths,
                   last_iteration, i, batch_size, train_indices, decode_indices,
                   epochs_this_iteration, surgery_converged, k, trained>>
    /\ UNCHANGED <<alVars, ukVars, pfVars>>

\* lines 89-117 for member k: the edit plan, update_kernels, the new length
SurgeryMember ==
    /\ pc = "surgery"
    /\ k < config.num_models
    /\ IF k \notin DOMAIN alignment.metadata
       THEN \* get_discard_or_expand_positions reads alignment.metadata[k]: KeyError
            /\ pc' = "KeyError"
            /\ UNCHANGED <<model_lengths, surgery_converged, k>>
       ELSE \E plan \in SurgeryPlans(model_lengths[k + 1]) :
            \E newL \in {Len(update_emission(model_lengths[k + 1], plan))} :
                  /\ newL <= MaxModelLen
                  /\ surgery_converged' = (surgery_converged /\ plan.pos_expand = <<>>
                                                             /\ plan.pos_discard = <<>>)
                  /\ model_lengths' = [model_lengths EXCEPT ![k + 1] = newL]
                  /\ IF model_too_short(newL)
                     THEN pc' = "SystemExit" /\ k' = k
                     ELSE pc' = "surgery" /\ k' = k + 1
    /\ UNCHANGED <<config, fasta_file, subset, full_length_estimate, last_iteration, i,
                   batch_size, train_indices, decode_indices, epochs_this_iteration,
                   alignment, trained, result>>
    /\ UNCHANGED <<alVars, ukVars, pfVars>>

\* lines 118-125: the next round's last_iteration; the loop ends after max_surgery_runs trained
EndRound ==
    /\ pc = "surgery"
    /\ k = config.num_models
    /\ last_iteration' = next_last_iteration(surgery_converged, i, config.max_surgery_runs)
    /\ i' = i + 1
    /\ IF i + 1 < config.max_surgery_runs
       THEN pc' = "loop" /\ result' = result
       ELSE pc' = "done" /\ result' = alignment
    /\ UNCHANGED <<config, fasta_file, subset, full_length_estimate, model_lengths,
                   batch_size, train_indices, decode_indices, epochs_this_iteration,
                   alignment, surgery_converged, k, trained>>
    /\ UNCHANGED <<alVars, ukVars, pfVars>>

FaNext == Start \/ FitRound \/ Finalize \/ SurgeryMember \/ EndRound

Spec == FaInit /\ [][FaNext]_vars

\* ------------------------------------------------------------------ extend_mods, update_kernels
\* x[:-1]
ButLast(s) == IF s = <<>> THEN <<>> ELSE SubSeq(s, 1, Len(s) - 1)

\* x[mask]: the entries of x where the boolean array mask holds, in order
Masked(x, mask) ==
    LET kept == SelectSeq([t \in DOMAIN x |-> t], LAMBDA t : mask[t])
    IN  [j \in DOMAIN kept |-> x[kept[j]]]

\* index of the first occurrence of v in x
FirstIndex(x, v) == CHOOSE t \in DOMAIN x : x[t] = v /\ \A u \in 1..(t - 1) : x[u] # v

extend_mods_discards_shifted(pos_discard, L, kk) ==
    [new_pos_discard |-> [t \in DOMAIN pos_discard |-> pos_discard[t] + kk],
     new_pos_expand |-> <<>>,
     new_expansion_lens |-> <<>>]

\* lines 690-706: the discards of extend_mods; kk is the shift k of the source
extend_mods_discards(pos_discard, L, kk) ==
    IF Len(pos_discard) > 0
    THEN LET shift == [t \in DOMAIN pos_discard |-> pos_discard[t] + kk]
             diff == [t \in DOMAIN shift |-> shift[t] - (IF t = 1 THEN -1 ELSE shift[t - 1])]
             segment_starts == Masked(shift, [t \in DOMAIN shift |-> diff[t] > 1])
             inserted == SortedSeq(Elems(shift) \cup {st - 1 : st \in Elems(segment_starts)})
             at_end == shift[Len(shift)] = L - 1
             starts == IF at_end THEN ButLast(segment_starts) ELSE segment_starts
         IN  [new_pos_discard |-> IF at_end THEN ButLast(inserted) ELSE inserted,
              new_pos_expand |-> [t \in DOMAIN starts |-> starts[t] - 1],
              new_expansion_lens |-> Repeat(1, Len(starts))]
    ELSE [new_pos_discard |-> pos_discard, new_pos_expand |-> <<>>, new_expansion_lens |-> <<>>]

extend_mods_no_compensation(pos_expand, expansion_lens, pos_discard, L, kk) ==
    [pos_expand |-> [t \in DOMAIN pos_expand |-> pos_expand[t] + kk],
     expansion_lens |-> expansion_lens,
     pos_discard |-> [t \in DOMAIN pos_discard |-> pos_discard[t] + kk]]

\* lines 686-741
extend_mods(pos_expand, expansion_lens, pos_discard, L, kk) ==
    LET lens1 == IF Len(pos_discard) = L /\ Len(pos_expand) > 0
                 THEN [expansion_lens EXCEPT ![1] = @ - 1]
                 ELSE expansion_lens
        d == extend_mods_discards(pos_discard, L, kk)
        pos_expand_shift == [t \in DOMAIN pos_expand |-> pos_expand[t] + kk]
        kept == (0..(L - 1)) \ Elems(d.new_pos_discard)
        extend(t) == /\ pos_expand_shift[t] > 0
                     /\ pos_expand_shift[t] < L
                     /\ (pos_expand_shift[t] - 1) \in kept
                     /\ \A u \in 1..(t - 1) : pos_expand_shift[u] # pos_expand_shift[t]
        shifted == [t \in DOMAIN pos_expand |->
                       IF pos_expand_shift[t] > 0 THEN pos_expand_shift[t] - 1
                       ELSE pos_expand_shift[t]]
        adj0 == [t \in DOMAIN pos_expand |-> lens1[t] + (IF extend(t) THEN 1 ELSE 0)]
        adj1 == IF Len(shifted) > 1 /\ shifted[1] = 0 /\ shifted[2] = 0
                THEN [adj0 EXCEPT ![1] = adj0[1] + adj0[2]]
                ELSE adj0
        adj2 == [t \in DOMAIN pos_expand |->
                    adj1[t] + (IF /\ shifted[t] \in Elems(d.new_pos_expand)
                                  /\ \A u \in 1..(t - 1) : shifted[u] # shifted[t]
                               THEN 1 ELSE 0)]
        cat_pos == shifted \o d.new_pos_expand
        cat_lens == adj2 \o d.new_expansion_lens
        uniq == SortedSeq(Elems(cat_pos))
        extended == Masked(shifted, [t \in DOMAIN shifted |-> extend(t)])
    IN  IF Len(pos_expand) = 0
        THEN [pos_expand |-> d.new_pos_expand,
              expansion_lens |-> d.new_expansion_lens,
              pos_discard |-> d.new_pos_discard]
        ELSE [pos_expand |-> IF Len(d.new_pos_expand) = 0 THEN shifted ELSE uniq,
              expansion_lens |-> IF Len(d.new_pos_expand) = 0 THEN adj0
                                 ELSE [j \in DOMAIN uniq |-> cat_lens[FirstIndex(cat_pos, uniq[j])]],
              pos_discard |-> IF Len(d.new_pos_discard) > 0
                              THEN SortedSeq(Elems(d.new_pos_discard) \cup Elems(extended))
                              ELSE extended]

\* a kernel of N entries before surgery: entry j of the fitted model is the value j
Kernel(N) == [j \in 1..N |-> j]

\* transition_dummy[key][j]: the initial value of entry j (0-based), a negative number
Dummy(j) == -(j + 1)

\* the keys update_kernels edits with the plan itself, and with each extended plan
\* lines 761-765, 812-826: emission, begin_to_match, match_to_end (L entries each)
\* lines 767-779, 788-790: args1 (L-1 entries each)
KeysArgs1 == {"match_to_match", "match_to_insert", "insert_to_match", "insert_to_insert",
              "delete_to_delete"}

\* update_kernels raises when one of its apply_mods calls does
update_kernels_raises(L, pos_expand, expansion_lens, pos_discard) ==
    LET args1 == extend_mods(pos_expand, expansion_lens, pos_discard, L, 0)
        args2 == extend_mods(pos_expand, expansion_lens, pos_discard, L + 1, 1)
        args3 == extend_mods(pos_expand, expansion_lens, pos_discard, L + 1, 0)
    IN  \/ apply_mods_raises(Kernel(L), pos_expand, expansion_lens, pos_discard)
        \/ apply_mods_raises(Kernel(L - 1), args1.pos_expand, args1.expansion_lens, args1.pos_discard)
        \/ apply_mods_raises(Kernel(L), args2.pos_expand, args2.expansion_lens, args2.pos_discard)
        \/ apply_mods_raises(Kernel(L), args3.pos_expand, args3.expansion_lens, args3.pos_discard)

\* lines 745-827: the kernels update_kernels returns for a model of length L
update_kernels(L, pos_expand, expansion_lens, pos_discard) ==
    LET args1 == extend_mods(pos_expand, expansion_lens, pos_discard, L, 0)
        args2 == extend_mods(pos_expand, expansion_lens, pos_discard, L + 1, 1)
        args3 == extend_mods(pos_expand, expansion_lens, pos_discard, L + 1, 0)
        with1 == apply_mods(Kernel(L - 1), args1.pos_expand, args1.expansion_lens,
                            args1.pos_discard, Dummy(0), DEL_MARKER)
        begin0 == apply_mods(Kernel(L), pos_expand, expansion_lens, pos_discard,
                             Dummy(1), DEL_MARKER)
        end0 == IF L \in Elems(pos_expand) THEN [Kernel(L) EXCEPT ![L] = Dummy(0)] ELSE Kernel(L)
    IN  IF update_kernels_raises(L, pos_expand, expansion_lens, pos_discard)
        THEN [raised |-> TRUE]
        ELSE [raised |-> FALSE,
              emission |-> apply_mods(Kernel(L), pos_expand, expansion_lens, pos_discard,
                                      Dummy(0), DEL_MARKER),
              match_to_match |-> with1,
              match_to_insert |-> with1,
              insert_to_match |-> with1,
              insert_to_insert |-> with1,
              delete_to_delete |-> with1,
              match_to_delete |-> apply_mods(Kernel(L), args2.pos_expand, args2.expansion_lens,
                                             args2.pos_discard, Dummy(0), DEL_MARKER),
              delete_to_match |-> apply_mods(Kernel(L), args3.pos_expand, args3.expansion_lens,
                                             args3.pos_discard, Dummy(0), DEL_MARKER),
              begin_to_match |-> IF 0 \in Elems(pos_expand) /\ Len(begin0) > 0
                                 THEN [begin0 EXCEPT ![1] = Dummy(0)]
                                 ELSE begin0,
              match_to_end |-> apply_mods(end0, pos_expand, expansion_lens, pos_discard,
                                          Dummy(0), DEL_MARKER)]

\* ------------------------------------------------------------------ SpecKernels
\* the ascending arrays over a set of positions
SortedSubsets(S) == {SortedSeq(T) : T \in SUBSET S}

\* the expansion lengths of a plan with c positions: each >= 1, at most MaxExpansion in total
ExpansionLens(c) == {l \in [1..c -> 1..MaxExpansion] : SumSeq(l) <= MaxExpansion}

\* the edit plans of a model of length L: ascending expansion positions in [0, L] with
\* lengths >= 1, ascending discard positions in [0, L-1]
KernelPlans(L) ==
    UNION { { [L |-> L, pos_expand |-> e, expansion_lens |-> l, pos_discard |-> d] :
                l \in ExpansionLens(Len(e)), d \in SortedSubsets(0..(L - 1)) } :
            e \in SortedSubsets(0..L) }

UkInit ==
    /\ \E L \in 3..MaxModelLen :
          surgery \in KernelPlans(L)
    /\ kernels = Unset
    /\ config = Unset /\ subset = Unset /\ full_length_estimate = Unset
    /\ model_lengths = Unset /\ last_iteration = Unset /\ i = Unset /\ batch_size = Unset
    /\ train_indices = Unset /\ decode_indices = Unset /\ epochs_this_iteration = Unset
    /\ surgery_converged = Unset /\ k = Unset /\ pc = Unset /\ trained = Unset
    /\ result = Unset /\ fasta_file = Unset /\ alignment = Unset
    /\ AlIdle
    /\ PfIdle

UpdateKernels ==
    /\ kernels = Unset
    /\ kernels' = update_kernels(surgery.L, surgery.pos_expand, surgery.expansion_lens,
                                 surgery.pos_discard)
    /\ UNCHANGED <<surgery, faVars, fasta_file, alignment, alVars, pfVars>>

UkNext == UpdateKernels

SpecKernels == UkInit /\ [][UkNext]_vars

\* ------------------------------------------------------------------ decode
\* lines 237-241: the classes of a state code q for a model with c match states
is_match_from_zero(q, c) == q >= 0 /\ q < c + 1

is_unannotated_never(q, c) == FALSE

is_at_end_terminal_only(q, c) == q = 2 * c + 2

is_match(q, c) == q > 0 /\ q < c + 1
is_insert(q, c) == q >= c + 1 /\ q < 2 * c
is_unannotated(q, c) == q = 2 * c
is_at_end(q, c) == q = 2 * c + 1 \/ q = 2 * c + 2

\* lines 272-277 for one sequence: the cursor after its run of flank_state_id (a row
\* advances only while it is in the flank state, whatever the other rows do)
RECURSIVE flank_end(_, _, _)
flank_end(path, flank_state_id, idx) ==
    IF path[idx + 1] = flank_state_id
    THEN flank_end(path, flank_state_id, idx + 1)
    ELSE idx

\* lines 257-279; indices is updated in place, so the moved cursors are returned too
decode_flank(state_seqs, flank_state_id, indices) ==
    LET moved == [r \in DOMAIN state_seqs |-> flank_end(state_seqs[r], flank_state_id, indices[r])]
    IN  [insertion_lens |-> [r \in DOMAIN state_seqs |-> moved[r] - indices[r]],
         insertion_start |-> indices,
         indices |-> moved]

\* lines 235-253 for one sequence: a row advances through match and insert states and
\* stays where it is from the first other state on; stuck marks a state that is neither
\* unannotated nor an end state, on which the loop of line 235 never exits
RECURSIVE decode_core_row(_, _, _)
decode_core_row(c, path, st) ==
    LET q == path[st.idx + 1] IN
    IF is_match(q, c)
    THEN decode_core_row(c, path, [st EXCEPT !.consensus[q] = st.idx,
                                             !.idx = st.idx + 1,
                                             !.last_insert = FALSE])
    ELSE IF is_insert(q, c)
    THEN decode_core_row(c, path,
             [st EXCEPT !.insertion_lens[q - c] = @ + 1,
                        !.insertion_start[q - c] = IF st.last_insert THEN @ ELSE st.idx,
                        !.idx = st.idx + 1,
                        !.last_insert = TRUE])
    ELSE [st EXCEPT !.finished = ~is_unannotated(q, c),
                    !.stuck = ~(is_unannotated(q, c) \/ is_at_end(q, c))]

\* lines 210-254
decode_core(model_length, state_seqs, indices) ==
    LET c == model_length
        rows == [r \in DOMAIN state_seqs |->
                    decode_core_row(c, state_seqs[r],
                        [idx |-> indices[r],
                         consensus |-> Repeat(-1, c),
                         insertion_lens |-> Repeat(0, c - 1),
                         insertion_start |-> Repeat(-1, c - 1),
                         last_insert |-> FALSE,
                         finished |-> FALSE,
                         stuck |-> FALSE])]
    IN  [consensus_columns |-> [r \in DOMAIN state_seqs |-> rows[r].consensus],
         insertion_lens |-> [r \in DOMAIN state_seqs |-> rows[r].insertion_lens],
         insertion_start |-> [r \in DOMAIN state_seqs |-> rows[r].insertion_start],
         finished |-> [r \in DOMAIN state_seqs |-> rows[r].finished],
         stuck |-> \E r \in DOMAIN state_seqs : rows[r].stuck,
         indices |-> [r \in DOMAIN state_seqs |-> rows[r].idx]]

\* lines 301-306: the loop of decode
RECURSIVE decode_loop(_, _, _, _, _)
decode_loop(c, state_seqs, indices, core_blocks, unannotated_segments) ==
    LET core == decode_core(c, state_seqs, indices)
        blocks == Append(core_blocks, core)
    IN  IF \A r \in DOMAIN state_seqs : core.finished[r]
        THEN [core_blocks |-> blocks,
              unannotated_segments |-> unannotated_segments,
              indices |-> core.indices]
        ELSE LET seg == decode_flank(state_seqs, 2 * c, core.indices)
             IN  decode_loop(c, state_seqs, seg.indices, blocks,
                             Append(unannotated_segments, seg))

\* lines 283-308
decode(model_length, state_seqs) ==
    LET c == model_length
        left_flank == decode_flank(state_seqs, 0, [r \in DOMAIN state_seqs |-> 0])
        looped == decode_loop(c, state_seqs, left_flank.indices, <<>>, <<>>)
    IN  [core_blocks |-> looped.core_blocks,
         left_flank |-> left_flank,
         right_flank |-> decode_flank(state_seqs, 2 * c + 1, looped.indices),
         unannotated_segments |-> looped.unannotated_segments]

\* ------------------------------------------------------------------ AlignmentMetaData
\* np.amax over the sequence axis of a matrix with one row per sequence
amax_rows(rows, width) ==
    [col \in 1..width |-> SeqMax([r \in DOMAIN rows |-> rows[r][col]])]

\* lines 532-561; d is what decode returned for at least one sequence. The stacked
\* consensus has the shape (repeats, sequences, match states), so shape[1] is the number
\* of sequences. np.sum of the scalar 0 of line 551 is the sum of the empty array.
AlignmentMetaData(d) ==
    LET consensus == [b \in DOMAIN d.core_blocks |-> d.core_blocks[b].consensus_columns]
        insertion_lens == [b \in DOMAIN d.core_blocks |-> d.core_blocks[b].insertion_lens]
        unannotated_segments_len ==
            [b \in DOMAIN d.unannotated_segments |-> d.unannotated_segments[b].insertion_lens]
        unannotated_segment_lens_total ==
            [b \in DOMAIN d.unannotated_segments |-> SeqMax(unannotated_segments_len[b])]
        num_repeats == Len(consensus)
        consensus_len == Len(consensus[1])
        left_flank_len_total == SeqMax(d.left_flank.insertion_lens)
        right_flank_len_total == SeqMax(d.right_flank.insertion_lens)
        insertion_lens_total ==
            [b \in DOMAIN insertion_lens |->
                amax_rows(insertion_lens[b], Len(insertion_lens[b][1]))]
    IN  [consensus |-> consensus,
         insertion_lens |-> insertion_lens,
         insertion_start |-> [b \in DOMAIN d.core_blocks |-> d.core_blocks[b].insertion_start],
         finished |-> [b \in DOMAIN d.core_blocks |-> d.core_blocks[b].finished],
         left_flank_len |-> d.left_flank.insertion_lens,
         left_flank_start |-> d.left_flank.insertion_start,
         right_flank_len |-> d.right_flank.insertion_lens,
         right_flank_start |-> d.right_flank.insertion_start,
         unannotated_segments_len |-> unannotated_segments_len,
         unannotated_segments_start |->
             [b \in DOMAIN d.unannotated_segments |-> d.unannotated_segments[b].insertion_start],
         unannotated_segment_lens_total |-> unannotated_segment_lens_total,
         num_repeats |-> num_repeats,
         consensus_len |-> consensus_len,
         left_flank_len_total |-> left_flank_len_total,
         right_flank_len_total |-> right_flank_len_total,
         insertion_lens_total |-> insertion_lens_total,
         alignment_len |-> left_flank_len_total
                           + consensus_len * num_repeats
                           + SumSeq([b \in DOMAIN insertion_lens_total |->
                                        SumSeq(insertion_lens_total[b])])
                           + SumSeq(unannotated_segment_lens_total)
                           + right_flank_len_total]

\* ------------------------------------------------------------------ rendering
\* fasta.alphabet: the residue alphabet, its last entry the gap
fasta_alphabet ==
    <<"A", "R", "N", "D", "C", "Q", "E", "G", "H", "I", "L", "K",
      "M", "F", "P", "S", "T", "W", "Y", "V", "X", "U", "O", "-">>

\* fasta.s
fasta_s == Len(fasta_alphabet)

\* str.lower on a letter of the alphabet
lower(aa) ==
    LET upper_case == <<"A", "B", "C", "D", "E", "F", "G", "H", "I", "J", "K", "L", "M",
                        "N", "O", "P", "Q", "R", "S", "T", "U", "V", "W", "X", "Y", "Z">>
        lower_case == <<"a", "b", "c", "d", "e", "f", "g", "h", "i", "j", "k", "l", "m",
                        "n", "o", "p", "q", "r", "s", "t", "u", "v", "w", "x", "y", "z">>
    IN  IF \E t \in DOMAIN upper_case : upper_case[t] = aa
        THEN lower_case[CHOOSE t \in DOMAIN upper_case : upper_case[t] = aa]
        ELSE aa

\* lines 414-417 with the default gap symbols
output_alphabet ==
    ButLast(fasta_alphabet) \o <<"-">>
        \o [t \in 1..(fasta_s - 1) |-> lower(fasta_alphabet[t])] \o <<".", "$">>

\* the concatenation of a list of arrays
RECURSIVE Flatten(_)
Flatten(ss) == IF ss = <<>> THEN <<>> ELSE Head(ss) \o Flatten(Tail(ss))

\* ''.join of a list of strings
RECURSIVE Join(_)
Join(ss) == IF ss = <<>> THEN "" ELSE Head(ss) \o Join(Tail(ss))

\* np.amax(lens) where the array may be empty or all zero: the passes of the fill loop
fill_passes(lens) == IF lens = <<>> THEN 0 ELSE Max(0, SeqMax(lens))

\* lines 311-337. The fill loop runs fill_passes(lens) times and decrements every
\* length each time; the right alignment then moves column i of row r to column
\* (maxlen - lens[r] + i) % maxlen with the decremented lens[r]. lens[r] <= maxlen.
get_insertion_block(sequences, lens, maxlen, starts, align_to_right) ==
    LET block == [r \in DOMAIN sequences |->
                    [col \in 1..maxlen |->
                        IF col - 1 < lens[r] THEN sequences[r][starts[r] + col]
                        ELSE fasta_s - 1]]
        lens_left == [r \in DOMAIN sequences |-> lens[r] - fill_passes(lens)]
        block_right_aligned ==
            [r \in DOMAIN sequences |->
                [col \in 1..maxlen |->
                    block[r][((col - 1 - (maxlen - lens_left[r])) % maxlen) + 1]]]
        placed == IF align_to_right THEN block_right_aligned ELSE block
    IN  [r \in DOMAIN sequences |-> [col \in 1..maxlen |-> placed[r][col] + fasta_s]]

\* lines 340-371
get_alignment_block(sequences, consensus, ins_len, ins_len_total, ins_start) ==
    LET c == Len(consensus[1])
        column(cc) == [r \in DOMAIN sequences |->
                          IF consensus[r][cc] # -1
                          THEN <<sequences[r][consensus[r][cc] + 1]>>
                          ELSE <<fasta_s - 1>>]
        insertion(cc) == get_insertion_block(sequences,
                                             [r \in DOMAIN sequences |-> ins_len[r][cc]],
                                             ins_len_total[cc],
                                             [r \in DOMAIN sequences |-> ins_start[r][cc]],
                                             FALSE)
        pieces == [t \in 1..(2 * c - 1) |->
                      IF t % 2 = 1 THEN column((t + 1) \div 2) ELSE insertion(t \div 2)]
    IN  [r \in DOMAIN sequences |-> Flatten([t \in 1..(2 * c - 1) |-> pieces[t][r]])]

\* lines 478-481: the padded residue rows of the batch
batch_sequences(ff, indices, batch_indices) ==
    [t \in DOMAIN batch_indices |->
        LET j == indices[batch_indices[t] + 1]
        IN  [p \in 1..ff.max_len |->
                IF p <= ff.seq_lens[j + 1] THEN ff.raw_seqs[j + 1][p] ELSE fasta_s - 1]]

take_first(x, batch_indices) == [t \in DOMAIN batch_indices |-> x[1]]

\* x[batch_indices]
take(x, batch_indices) == [t \in DOMAIN batch_indices |-> x[batch_indices[t] + 1]]

\* lines 477-522: the dense matrix of a batch, from the metadata md of the model
get_batch_alignment(ff, indices, md, batch_indices, add_block_sep) ==
    LET sequences == batch_sequences(ff, indices, batch_indices)
        sep == IF add_block_sep
               THEN <<[t \in DOMAIN batch_indices |-> <<2 * fasta_s>>]>>
               ELSE <<>>
        left_flank_block == get_insertion_block(sequences,
                                                take(md.left_flank_len, batch_indices),
                                                md.left_flank_len_total,
                                                take(md.left_flank_start, batch_indices),
                                                TRUE)
        repeat(b) ==
            <<get_alignment_block(sequences,
                                  take(md.consensus[b], batch_indices),
                                  take(md.insertion_lens[b], batch_indices),
                                  md.insertion_lens_total[b],
                                  take(md.insertion_start[b], batch_indices))>>
            \o sep
            \o (IF b - 1 < md.num_repeats - 1
                THEN <<get_insertion_block(sequences,
                                           take(md.unannotated_segments_len[b], batch_indices),
                                           md.unannotated_segment_lens_total[b],
                                           take(md.unannotated_segments_start[b], batch_indices),
                                           FALSE)>> \o sep
                ELSE <<>>)
        right_flank_block == get_insertion_block(sequences,
                                                 take(md.right_flank_len, batch_indices),
                                                 md.right_flank_len_total,
                                                 take(md.right_flank_start, batch_indices),
                                                 FALSE)
        blocks == <<left_flank_block>> \o sep
                  \o Flatten([b \in 1..md.num_repeats |-> repeat(b)])
                  \o <<right_flank_block>>
    IN  [t \in DOMAIN batch_indices |-> Flatten([b \in DOMAIN blocks |-> blocks[b][t]])]

\* lines 525-528
batch_to_string(batch_alignment) ==
    [t \in DOMAIN batch_alignment |->
        Join([col \in DOMAIN batch_alignment[t] |-> output_alphabet[batch_alignment[t][col] + 1]])]

\* np.arange(i, min(n, i+batch_size))
batch_range(ii, n, bsize) == [t \in 1..(Min(n, ii + bsize) - ii) |-> ii + t - 1]

\* lines 444-452: the strings of the batches from sequence ii on
RECURSIVE to_string_from(_, _, _, _, _, _)
to_string_from(ff, indices, md, bsize, add_block_sep, ii) ==
    IF ii < Len(indices)
    THEN batch_to_string(get_batch_alignment(ff, indices, md,
                                             batch_range(ii, Len(indices), bsize),
                                             add_block_sep))
         \o to_string_from(ff, indices, md, bsize, add_block_sep, ii + bsize)
    ELSE <<>>

\* lines 442-452
to_string(ff, indices, md, bsize, add_block_sep) ==
    to_string_from(ff, indices, md, bsize, add_block_sep, 0)

\* lines 456-467: the lines written to the file, batch by batch from sequence ii on
RECURSIVE to_file_from(_, _, _, _, _, _)
to_file_from(ff, indices, md, bsize, add_block_sep, ii) ==
    IF ii < Len(indices)
    THEN LET batch_indices == batch_range(ii, Len(indices), bsize)
             alignment_strings ==
                 batch_to_string(get_batch_alignment(ff, indices, md, batch_indices,
                                                     add_block_sep))
         IN  Flatten([t \in DOMAIN batch_indices |->
                         <<">" \o ff.seq_ids[indices[batch_indices[t] + 1] + 1],
                           alignment_strings[t]>>])
             \o to_file_from(ff, indices, md, bsize, add_block_sep, ii + bsize)
    ELSE <<>>

\* ------------------------------------------------------------------ SpecAlignment
\* the states that can follow state q on a path of a model with c match states
NextStates(q, c) ==
    IF q = 0 THEN {0} \cup (1..c)
    ELSE IF is_match(q, c)
         THEN ((q + 1)..c) \cup (IF q < c THEN {c + q} ELSE {}) \cup {2 * c, 2 * c + 1}
    ELSE IF is_insert(q, c) THEN {q, q - c + 1}
    ELSE IF is_unannotated(q, c) THEN {2 * c} \cup (1..c)
    ELSE {2 * c + 1}

\* the continuations by r more residues of a path that is in state q
RECURSIVE PathsAfter(_, _, _)
PathsAfter(q, c, r) ==
    IF r = 0
    THEN (IF is_match(q, c) \/ q = 2 * c + 1 THEN {<<>>} ELSE {})
    ELSE UNION { { <<q2>> \o p : p \in PathsAfter(q2, c, r - 1) } : q2 \in NextStates(q, c) }

\* viterbi.get_state_seqs_max_lik for one sequence of len residues: a left flank, core
\* segments of match and insert states separated by unannotated segments, a right
\* flank; then the terminal state up to the width max_len + 1
ViterbiPaths(c, len, max_len) ==
    { p \o Repeat(2 * c + 2, max_len + 1 - len) : p \in PathsAfter(0, c, len) }

\* a path through the first match states, the rest of the sequence in the right flank
PlainPath(c, len, max_len) ==
    [t \in 1..(max_len + 1) |->
        IF t <= len THEN (IF t <= c THEN t ELSE 2 * c + 1) ELSE 2 * c + 2]

\* a path with one residue in the left flank and the others as in PlainPath; a sequence
\* of one residue is on its plain path
FlankedPath(c, len, max_len) ==
    IF len = 1 THEN PlainPath(c, len, max_len)
    ELSE [t \in 1..(max_len + 1) |->
             IF t = 1 THEN 0
             ELSE IF t <= len THEN (IF t - 1 <= c THEN t - 1 ELSE 2 * c + 1)
             ELSE 2 * c + 2]

\* the sequence file of an Alignment: residue p of sequence j has a code of its own
AlignmentFasta(seq_lens) ==
    [num_seq |-> Len(seq_lens),
     seq_lens |-> seq_lens,
     max_len |-> SeqMax(seq_lens),
     seq_ids |-> [j \in DOMAIN seq_lens |-> "seq" \o ToString(j - 1)],
     raw_seqs |-> [j \in DOMAIN seq_lens |->
                      [p \in 1..seq_lens[j] |->
                          ((j - 1) * SeqMax(seq_lens) + p - 1) % (fasta_s - 1)]]]

\* viterbi and decode for the models of the Alignment al
decoded_metadata(al, state_seqs) ==
    [m \in 0..(al.num_models - 1) |-> AlignmentMetaData(decode(al.lengths[m + 1], state_seqs[m + 1]))]

\* lines 427-438 on the Alignment al: one more Viterbi run, the metadata of models stored
Alignment_build_alignment(al, models, decoded) ==
    [al EXCEPT !.metadata = build_alignment(al.metadata, models, decoded),
               !.viterbi_runs = al.viterbi_runs + 1]

\* the metadata cache forgotten whenever a model is requested
ensure_metadata_rebuilding(al, model_index, decoded) ==
    Alignment_build_alignment(al, {model_index}, decoded)

\* lines 475-476
ensure_metadata(al, model_index, decoded) ==
    IF model_index \notin DOMAIN al.metadata
    THEN Alignment_build_alignment(al, {model_index}, decoded)
    ELSE al

\* lines 390-421
Alignment_new(build, indices, lengths, decoded) ==
    LET al == [indices |-> indices, lengths |-> lengths, num_models |-> Len(lengths),
               build |-> build, metadata |-> <<>>, viterbi_runs |-> 0]
    IN  IF build = "eager"
        THEN Alignment_build_alignment(al, 0..(Len(lengths) - 1), decoded)
        ELSE al

\* the non-empty ascending index arrays into n decoded sequences
BatchIndices(n) == SortedSubsets(0..(n - 1)) \ {<<>>}

FaIdle ==
    /\ config = Unset /\ subset = Unset /\ full_length_estimate = Unset
    /\ model_lengths = Unset /\ last_iteration = Unset /\ i = Unset /\ batch_size = Unset
    /\ train_indices = Unset /\ decode_indices = Unset /\ epochs_this_iteration = Unset
    /\ surgery_converged = Unset /\ k = Unset /\ pc = Unset /\ trained = Unset
    /\ result = Unset

\* an Alignment of two models (3 and 4 match states) over all sequences of the file, or
\* a lazy one over no sequence. Each sequence after the first has MaxSeqLen - 1 residues
\* on a plain or a flanked path of the first model; the first sequence has MaxSeqLen
\* residues on a plain path or, with any_path, any length and any path of the first
\* model. The second model has plain paths.
Alignments(any_path) ==
    /\ \E n \in 1..MaxSeqs :
       \E len \in (IF any_path THEN 1..MaxSeqLen ELSE {MaxSeqLen}) :
       \E flanked \in BOOLEAN :
       \E build \in {"lazy", "eager"} :
       \E decoding \in {"all", "none"} :
          LET seq_lens == [j \in 1..n |-> IF j = 1 THEN len ELSE MaxSeqLen - 1]
              ff == AlignmentFasta(seq_lens)
              lengths == <<3, 4>>
              others == [j \in 2..n |-> IF flanked THEN FlankedPath(3, seq_lens[j], ff.max_len)
                                        ELSE PlainPath(3, seq_lens[j], ff.max_len)]
          IN  /\ fasta_file = ff
              /\ (decoding = "none") => (build = "lazy" /\ ~flanked)
              /\ (n = 1) => ~flanked
              /\ IF decoding = "all"
                 THEN state_seqs_max_lik \in
                          { << <<p>> \o [j \in 1..(n - 1) |-> others[j + 1]],
                               [j \in 1..n |-> PlainPath(4, seq_lens[j], ff.max_len)] >> :
                              p \in (IF any_path THEN ViterbiPaths(3, len, ff.max_len)
                                     ELSE {PlainPath(3, len, ff.max_len)}) }
                 ELSE state_seqs_max_lik = <<<<>>, <<>>>>
              /\ alignment = Alignment_new(build,
                                           IF decoding = "all" THEN arange(n) ELSE <<>>,
                                           lengths,
                                           decoded_metadata([num_models |-> 2, lengths |-> lengths],
                                                            state_seqs_max_lik))
    /\ call = [op |-> "init"]
    /\ FaIdle
    /\ UkIdle
    /\ PfIdle

AlInit == Alignments(FALSE)

\* get_batch_alignment(model_index, batch_indices, add_block_sep)
Alignment_get_batch_alignment ==
    /\ \E model_index \in 0..(alignment.num_models - 1) :
       \E batch_indices \in BatchIndices(Len(alignment.indices)) :
       \E add_block_sep \in BOOLEAN :
       \E al \in {ensure_metadata(alignment, model_index,
                                  decoded_metadata(alignment, state_seqs_max_lik))} :
          /\ alignment' = al
          /\ call' = [op |-> "get_batch_alignment",
                      model_index |-> model_index,
                      batch_indices |-> batch_indices,
                      add_block_sep |-> add_block_sep,
                      cached |-> model_index \in DOMAIN alignment.metadata,
                      result |-> get_batch_alignment(fasta_file, al.indices,
                                                     al.metadata[model_index],
                                                     batch_indices, add_block_sep)]
    /\ UNCHANGED <<fasta_file, state_seqs_max_lik, faVars, ukVars, pfVars>>

\* to_string(model_index, batch_size, add_block_sep): the first batch builds the
\* metadata, no batch is rendered for an Alignment over no sequence
Alignment_to_string ==
    /\ \E model_index \in 0..(alignment.num_models - 1) :
       \E bsize \in 1..MaxSeqs :
       \E add_block_sep \in BOOLEAN :
       \E al \in {IF Len(alignment.indices) > 0
                  THEN ensure_metadata(alignment, model_index,
                                       decoded_metadata(alignment, state_seqs_max_lik))
                  ELSE alignment} :
          /\ alignment' = al
          /\ call' = [op |-> "to_string",
                      model_index |-> model_index,
                      batch_size |-> bsize,
                      add_block_sep |-> add_block_sep,
                      cached |-> model_index \in DOMAIN alignment.metadata,
                      result |-> IF Len(al.indices) > 0
                                 THEN to_string(fasta_file, al.indices,
                                                al.metadata[model_index], bsize, add_block_sep)
                                 ELSE <<>>]
    /\ UNCHANGED <<fasta_file, state_seqs_max_lik, faVars, ukVars, pfVars>>

\* to_file(filepath, model_index) as lines 184 and 200 call it: the default batch size
\* holds every sequence and no separators are added; result is the file written
Alignment_to_file ==
    /\ \E model_index \in 0..(alignment.num_models - 1) :
       \E al \in {IF Len(alignment.indices) > 0
                  THEN ensure_metadata(alignment, model_index,
                                       decoded_metadata(alignment, state_seqs_max_lik))
                  ELSE alignment} :
          /\ alignment' = al
          /\ call' = [op |-> "to_file",
                      model_index |-> model_index,
                      batch_size |-> Max(1, Len(al.indices)),
                      add_block_sep |-> FALSE,
                      cached |-> model_index \in DOMAIN alignment.metadata,
                      result |-> IF Len(al.indices) > 0
                                 THEN to_file_from(fasta_file, al.indices,
                                                   al.metadata[model_index],
                                                   Max(1, Len(al.indices)), FALSE, 0)
                                 ELSE <<>>]
    /\ UNCHANGED <<fasta_file, state_seqs_max_lik, faVars, ukVars, pfVars>>

AlNext == Alignment_get_batch_alignment \/ Alignment_to_string \/ Alignment_to_file

SpecAlignment == AlInit /\ [][AlNext]_vars

\* ------------------------------------------------------------------ SpecRender
\* the first operation on an Alignment over any paths of the first model
RenderInit == Alignments(TRUE)

RenderNext == call.op = "init" /\ AlNext

SpecRender == RenderInit /\ [][RenderNext]_vars

\* ------------------------------------------------------------------ SpecRun: run_learnMSA
\* lines 1-10 and the def statements: the names bound in the module Align
module_names ==
    {"tf", "np", "time", "os", "fasta", "train", "msa_hmm", "viterbi", "as_str",
     "assert_config", "get_adaptive_batch_size", "Path", "fit_and_align", "run_learnMSA",
     "decode_core", "decode_flank", "decode", "get_insertion_block", "get_alignment_block",
     "Alignment", "AlignmentMetaData", "get_discard_or_expand_positions", "apply_mods",
     "extend_mods", "update_kernels", "compute_loglik", "get_full_length_estimate",
     "get_initial_model_lengths"}

\* Python's builtins that run_learnMSA uses
builtin_names == {"print", "str", "zip", "range"}

\* line 174, sys.exit(e.error_code): the name sys is looked up first, and the call is
\* made only when the name is bound
sys_exit(error_code) ==
    IF "sys" \in module_names \cup builtin_names
    THEN [raised |-> "SystemExit", code |-> error_code]
    ELSE [raised |-> "NameError", name |-> "sys"]

\* how the call of fit_and_align in line 164 ends: it returns, it raises
\* tf.errors.ResourceExhaustedError (error_code RESOURCE_EXHAUSTED), or it raises
\* the SystemExit of line 117, which no handler of run_learnMSA catches
FitOutcomes ==
    {[raised |-> "none"],
     [raised |-> "ResourceExhaustedError", error_code |-> 8],
     [raised |-> "SystemExit", code |-> 1]}

RunInit ==
    /\ \E verbose \in BOOLEAN, with_ref \in BOOLEAN, select_best \in BOOLEAN,
          num_models \in 1..2, bs \in 1..MaxBatch, fit \in FitOutcomes :
          run = [pc |-> "start",
                 verbose |-> verbose,
                 ref_filename |-> IF with_ref THEN "ref" ELSE "",
                 select_best_for_comparison |-> select_best,
                 config |-> [num_models |-> num_models, batch_size |-> bs],
                 fit |-> fit,
                 printed |-> <<>>,
                 written |-> <<>>,
                 ended |-> [raised |-> "none"]]
    /\ decoder = Unset /\ mods = Unset /\ positions = Unset /\ DsIdle
    /\ fasta_file = Unset /\ alignment = Unset
    /\ FaIdle
    /\ AlIdle
    /\ UkIdle

\* lines 150-161: the configuration is printed, the files are loaded
RunLoad ==
    /\ run.pc = "start"
    /\ run' = [run EXCEPT !.pc = "fit",
                          !.printed = IF run.verbose THEN <<"Training of", "Configuration:">>
                                      ELSE <<>>]
    /\ UNCHANGED <<faVars, fasta_file, alignment, alVars, ukVars, dsVars, decoder, mods, positions>>

\* lines 162-170: fit_and_align returns or raises
RunFit ==
    /\ run.pc = "fit"
    /\ run' = IF run.fit.raised = "none"
              THEN [run EXCEPT !.pc = "fitted",
                               !.printed = IF run.verbose
                                           THEN Append(@, "Time for alignment:") ELSE @]
              ELSE IF run.fit.raised = "ResourceExhaustedError"
              THEN [run EXCEPT !.pc = "except"]
              ELSE [run EXCEPT !.pc = "ended", !.ended = run.fit]
    /\ UNCHANGED <<faVars, fasta_file, alignment, alVars, ukVars, dsVars, decoder, mods, positions>>

\* lines 171-174: the handler of ResourceExhaustedError
RunExcept ==
    /\ run.pc = "except"
    /\ run' = [run EXCEPT !.pc = "ended",
                          !.printed = @ \o <<"Out of memory. A resource was exhausted.",
                                             "Try reducing the batch size (-b). The current batch size was: "
                                                 \o ToString(run.config.batch_size) \o ".">>,
                          !.ended = sys_exit(run.fit.error_code)]
    /\ UNCHANGED <<faVars, fasta_file, alignment, alVars, ukVars, dsVars, decoder, mods, positions>>

\* lines 176-188: the best model is selected and written to out_filename
RunWrite ==
    /\ run.pc = "fitted"
    /\ \E best_model \in 0..(run.config.num_models - 1) :
          run' = [run EXCEPT !.pc = "written",
                             !.written = <<[file |-> "out", model_index |-> best_model]>>,
                             !.printed = IF run.verbose
                                         THEN @ \o <<"Computed alignments with likelihoods (priors): ",
                                                     "Best model: ", "time for generating output:",
                                                     "Wrote file">>
                                         ELSE @]
    /\ UNCHANGED <<faVars, fasta_file, alignment, alVars, ukVars, dsVars, decoder, mods, positions>>

\* lines 190-207: the comparison with the reference, then the return
RunScore ==
    /\ run.pc = "written"
    /\ run' = IF run.ref_filename = ""
              THEN [run EXCEPT !.pc = "ended", !.ended = [raised |-> "none", returned |-> "alignment"]]
              ELSE IF run.select_best_for_comparison
              THEN [run EXCEPT !.pc = "ended",
                               !.printed = IF run.verbose THEN Append(@, "SP score =") ELSE @,
                               !.ended = [raised |-> "none", returned |-> "alignment, sp"]]
              ELSE [run EXCEPT !.pc = "ended",
                               !.written = @ \o [m \in 1..run.config.num_models |->
                                                    [file |-> "tmp.fasta", model_index |-> m - 1]],
                               !.printed = @ \o [m \in 1..run.config.num_models |-> "Model SP score ="],
                               !.ended = [raised |-> "none", returned |-> "alignment, sp"]]
    /\ UNCHANGED <<faVars, fasta_file, alignment, alVars, ukVars, dsVars, decoder, mods, positions>>

RunNext == RunLoad \/ RunFit \/ RunExcept \/ RunWrite \/ RunScore

SpecRun == RunInit /\ [][RunNext]_vars

\* ------------------------------------------------------------------ SpecDecode: decode_core
\* the arguments of a call: a model length, the Viterbi paths of up to MaxSeqs sequences
\* and one cursor per sequence. The first sequence is on any path of the model with a
\* cursor anywhere on it; each other sequence is on the flanked path with its cursor
\* on the left flank or behind it.
DecodeInit ==
    /\ \E L \in 3..MaxModelLen :
       \E n \in 1..MaxSeqs :
       \E len \in 1..MaxPathLen :
       \E p \in ViterbiPaths(L, len, MaxPathLen) :
       \E idx \in 0..len :
       \E idx_others \in 0..1 :
          decoder = [op |-> "init",
                     model_length |-> L,
                     state_seqs_max_lik |-> <<p>> \o [j \in 1..(n - 1) |->
                                                FlankedPath(L, MaxPathLen - 1, MaxPathLen)],
                     indices |-> <<idx>> \o [j \in 1..(n - 1) |-> idx_others]]
    /\ run = Unset /\ mods = Unset /\ positions = Unset /\ DsIdle
    /\ fasta_file = Unset /\ alignment = Unset
    /\ FaIdle
    /\ AlIdle
    /\ UkIdle

\* decode_core(model_length, state_seqs_max_lik, indices)
DecodeCore ==
    /\ decoder.op = "init"
    /\ decoder' = [op |-> "decode_core",
                   model_length |-> decoder.model_length,
                   state_seqs_max_lik |-> decoder.state_seqs_max_lik,
                   indices |-> decoder.indices,
                   result |-> decode_core(decoder.model_length, decoder.state_seqs_max_lik,
                                          decoder.indices)]
    /\ UNCHANGED <<faVars, fasta_file, alignment, alVars, ukVars, dsVars, run, mods, positions>>

\* decode_flank(state_seqs_max_lik, flank_state_id, indices) for the three flank states
\* decode passes
DecodeFlank ==
    /\ decoder.op = "init"
    /\ \E flank_state_id \in {0, 2 * decoder.model_length, 2 * decoder.model_length + 1} :
          decoder' = [op |-> "decode_flank",
                      model_length |-> decoder.model_length,
                      state_seqs_max_lik |-> decoder.state_seqs_max_lik,
                      indices |-> decoder.indices,
                      flank_state_id |-> flank_state_id,
                      result |-> decode_flank(decoder.state_seqs_max_lik, flank_state_id,
                                              decoder.indices)]
    /\ UNCHANGED <<faVars, fasta_file, alignment, alVars, ukVars, dsVars, run, mods, positions>>

\* decode(model_length, state_seqs_max_lik): every cursor starts at 0
Decode ==
    /\ decoder.op = "init"
    /\ decoder' = [op |-> "decode",
                   model_length |-> decoder.model_length,
                   state_seqs_max_lik |-> decoder.state_seqs_max_lik,
                   indices |-> [r \in DOMAIN decoder.indices |-> 0],
                   result |-> decode(decoder.model_length, decoder.state_seqs_max_lik)]
    /\ UNCHANGED <<faVars, fasta_file, alignment, alVars, ukVars, dsVars, run, mods, positions>>

DecodeNext == DecodeCore \/ DecodeFlank \/ Decode

SpecDecode == DecodeInit /\ [][DecodeNext]_vars

\* ------------------------------------------------------------------ SpecMods: apply_mods, extend_mods
\* the values apply_mods is given to insert: a dummy kernel entry, and a positive value
insert_values == {Dummy(0), 9}

\* the arguments of a call: an edit plan of a model of length L, and for apply_mods a
\* vector of L or L+1 entries without del_marker
ModsInit ==
    /\ \E L \in 3..MaxModelLen :
       \E plan \in KernelPlans(L) :
          mods = [op |-> "init", plan |-> plan]
    /\ run = Unset /\ decoder = Unset /\ positions = Unset /\ DsIdle
    /\ fasta_file = Unset /\ alignment = Unset
    /\ FaIdle
    /\ AlIdle
    /\ UkIdle

\* apply_mods(x, pos_expand, expansion_lens, pos_discard, insert_value); line 657 works
\* on a copy, so x is the caller's array before and after the call
ApplyMods ==
    /\ mods.op = "init"
    /\ \E N \in {mods.plan.L, mods.plan.L + 1} :
       \E insert_value \in insert_values :
          mods' = [op |-> "apply_mods",
                   plan |-> mods.plan,
                   x |-> Kernel(N),
                   insert_value |-> insert_value,
                   del_marker |-> DEL_MARKER,
                   result |-> apply_mods(Kernel(N), mods.plan.pos_expand,
                                         mods.plan.expansion_lens, mods.plan.pos_discard,
                                         insert_value, DEL_MARKER)]
    /\ UNCHANGED <<faVars, fasta_file, alignment, alVars, ukVars, dsVars, run, decoder, positions>>

\* extend_mods(pos_expand, expansion_lens, pos_discard, L, k) with the (L, k) of lines
\* 767, 780 and 784: (L, 0), (L+1, 1), (L+1, 0)
ExtendMods ==
    /\ mods.op = "init"
    /\ \E a \in {<<mods.plan.L, 0>>, <<mods.plan.L + 1, 1>>, <<mods.plan.L + 1, 0>>} :
          mods' = [op |-> "extend_mods",
                   plan |-> mods.plan,
                   L |-> a[1],
                   k |-> a[2],
                   result |-> extend_mods(mods.plan.pos_expand, mods.plan.expansion_lens,
                                          mods.plan.pos_discard, a[1], a[2])]
    /\ UNCHANGED <<faVars, fasta_file, alignment, alVars, ukVars, dsVars, run, decoder, positions>>

ModsNext == ApplyMods \/ ExtendMods

SpecMods == ModsInit /\ [][ModsNext]_vars

\* ------------------------------------------------------------------ get_discard_or_expand_positions
\* np.sum of a boolean array: the number of entries that hold
CountTrue(mask) == Cardinality({t \in DOMAIN mask : mask[t]})

ceil_mean_floor(a, b) == a \div b

\* np.ceil(a / b).astype(np.int32) for integers a >= 0 and b > 0
ceil_mean(a, b) == (a + b - 1) \div b

RECURSIVE SeqMin(_)
\* np.min of a non-empty array
SeqMin(s) == IF Len(s) = 1 THEN s[1] ELSE Min(Head(s), SeqMin(Tail(s)))

\* lines 620-623: np.unique(..., return_index=True) over rule B's positions followed by
\* rule A's, and the lengths at the first occurrences
merge_expansions_rule_a_first(pos_expand1, expansion_lens1, pos_expand2, expansion_lens2) ==
    LET cat_pos == pos_expand1 \o pos_expand2
        cat_lens == expansion_lens1 \o expansion_lens2
        pos_expand == SortedSeq(Elems(cat_pos))
    IN  [pos_expand |-> pos_expand,
         expansion_lens |-> [j \in DOMAIN pos_expand |-> cat_lens[FirstIndex(cat_pos, pos_expand[j])]]]

merge_expansions(pos_expand1, expansion_lens1, pos_expand2, expansion_lens2) ==
    LET cat_pos == pos_expand2 \o pos_expand1
        cat_lens == expansion_lens2 \o expansion_lens1
        pos_expand == SortedSeq(Elems(cat_pos))
    IN  [pos_expand |-> pos_expand,
         expansion_lens |-> [j \in DOMAIN pos_expand |-> cat_lens[FirstIndex(cat_pos, pos_expand[j])]]]

intersect1d_first(a, b) == a

\* np.intersect1d(a, b): the sorted values found in both arrays
intersect1d(a, b) == SortedSeq(Elems(a) \cap Elems(b))

\* lines 575-646 for the metadata md of model_index, n = alignment.indices.size, L match
\* states and prior_val the summed prior log densities of the match states. The
\* thresholds del_t, ins_t and match_prior_threshold are fractions <<numerator,
\* denominator>>, and so are the entries of ins_frac; kk is the argument k.
get_discard_or_expand_positions(md, n, L, prior_val, del_t, ins_t, match_prior_threshold, ins_long, kk) ==
    LET r == md.num_repeats
        finished_early == [b \in 1..(r - 1) |-> CountTrue(md.finished[b])]
        num_repeats == r * n - SumSeq(finished_early)
        \* insertions
        block_ins == [e \in 1..(L - 1) |->
                        SumSeq([b \in 1..r |->
                            CountTrue([q \in 1..n |-> md.insertion_lens[b][q][e] > 0])])]
        ins_frac == << <<CountTrue([q \in 1..n |-> md.left_flank_len[q] > 0]), n>> >>
                    \o [e \in 1..(L - 1) |-> <<block_ins[e], num_repeats>>]
                    \o << <<CountTrue([q \in 1..n |-> md.right_flank_len[q] > 0]), n>> >>
        block_ins_lens == [e \in 1..(L - 1) |->
                             SumSeq([b \in 1..r |->
                                 SumSeq([q \in 1..n |-> md.insertion_lens[b][q][e]])])]
        ins_lens == <<ceil_mean(SumSeq(md.left_flank_len), n)>>
                    \o [e \in 1..(L - 1) |-> ceil_mean(block_ins_lens[e], num_repeats)]
                    \o <<ceil_mean(SumSeq(md.right_flank_len), n)>>
        expand1 == [p \in 1..(L + 1) |-> ins_frac[p][1] * ins_t[2] > ins_t[1] * ins_frac[p][2]]
        pos_expand1 == Masked(arange(L + 1), expand1)
        expansion_lens1 == Masked(ins_lens, expand1)
        block_very_long == [e \in 1..(L - 1) |->
                              SumSeq([q \in 1..n |->
                                  Min(CountTrue([b \in 1..r |-> md.insertion_lens[b][q][e] > ins_long]), 1)])]
        very_long == <<CountTrue([q \in 1..n |-> md.left_flank_len[q] > ins_long])>>
                     \o block_very_long
                     \o <<CountTrue([q \in 1..n |-> md.right_flank_len[q] > ins_long])>>
        expand2 == [p \in 1..(L + 1) |-> very_long[p] >= kk]
        pos_expand2 == Masked(arange(L + 1), expand2)
        expansion_lens2 == Repeat(ins_long, Len(pos_expand2))
        merged == merge_expansions(pos_expand1, expansion_lens1, pos_expand2, expansion_lens2)
        \* deletions
        del_no_finish == [b \in 1..r |-> [m \in 1..L |->
                             CountTrue([q \in 1..n |-> md.consensus[b][q][m] = -1])
                                 - (IF b > 1 THEN finished_early[b - 1] ELSE 0)]]
        del_sum == [m \in 1..L |-> SumSeq([b \in 1..r |-> del_no_finish[b][m]])]
        pos_discard1 == Masked(arange(L), [m \in 1..L |-> del_sum[m] * del_t[2] > del_t[1] * num_repeats])
        min_prior == SeqMin(prior_val)
        max_prior == SeqMax(prior_val)
        pos_discard2 == Masked(arange(Len(prior_val)),
                               [m \in DOMAIN prior_val |->
                                   prior_val[m] * match_prior_threshold[2]
                                       <= min_prior * match_prior_threshold[2]
                                          + match_prior_threshold[1] * (max_prior - min_prior)])
    IN  [pos_expand |-> merged.pos_expand,
         expansion_lens |-> merged.expansion_lens,
         pos_discard |-> intersect1d(pos_discard1, pos_discard2)]

\* ------------------------------------------------------------------ SpecPositions
\* the Viterbi paths of the sequences of an alignment to a model of 3 match states: all
\* columns matched; one and two residues inserted after the first column; a residue
\* in the left flank; a deleted column and a right flank of two; a second hit after an
\* unannotated residue; two hits with two residues inserted in each; the terminal state
\* fills each path to the common width
HitPaths ==
    << <<1, 2, 3>>,
       <<1, 4, 2, 3>>,
       <<1, 4, 4, 2>>,
       <<0, 1, 2, 3>>,
       <<1, 3, 7, 7>>,
       <<1, 2, 6, 2>>,
       <<1, 4, 4, 2, 6, 1, 4, 4, 2>> >>

\* the width of the Viterbi output: the longest sequence and one terminal state
hit_path_width == SeqMax([kind \in DOMAIN HitPaths |-> Len(HitPaths[kind])]) + 1

HitPath(kind) == HitPaths[kind] \o Repeat(8, hit_path_width - Len(HitPaths[kind]))

\* the alignments of n sequences, up to the order of the sequences
HitAlignments(n) ==
    {[q \in 1..n |-> HitPath(kinds[q])] :
        kinds \in {f \in [1..n -> DOMAIN HitPaths] : \A q \in 1..(n - 1) : f[q] <= f[q + 1]}}

PositionsInit ==
    /\ \E n \in 1..MaxHitSeqs :
       \E state_seqs \in HitAlignments(n) :
       \E md \in {AlignmentMetaData(decode(3, state_seqs))} :
       \E ins_t \in {<<1, 2>>, <<3, 5>>} :
       \E ins_long \in 1..2 :
       \E kk \in 1..2 :
       \E match_prior_threshold \in {<<1, 2>>, <<1, 1>>} :
       \E del_t \in {<<1, 2>>, <<1, 4>>} :
          positions = [op |-> "init",
                       n |-> n,
                       L |-> 3,
                       metadata |-> md,
                       prior_val |-> <<-2, -1, -3>>,
                       del_t |-> del_t,
                       ins_t |-> ins_t,
                       match_prior_threshold |-> match_prior_threshold,
                       ins_long |-> ins_long,
                       k |-> kk]
    /\ run = Unset /\ decoder = Unset /\ mods = Unset /\ DsIdle
    /\ fasta_file = Unset /\ alignment = Unset
    /\ FaIdle
    /\ AlIdle
    /\ UkIdle

\* get_discard_or_expand_positions(alignment, model_index, del_t, ins_t,
\* match_prior_threshold, ins_long, k)
GetPositions ==
    /\ positions.op = "init"
    /\ positions' = [op |-> "get_discard_or_expand_positions",
                     n |-> positions.n,
                     L |-> positions.L,
                     metadata |-> positions.metadata,
                     prior_val |-> positions.prior_val,
                     del_t |-> positions.del_t,
                     ins_t |-> positions.ins_t,
                     match_prior_threshold |-> positions.match_prior_threshold,
                     ins_long |-> positions.ins_long,
                     k |-> positions.k,
                     result |-> get_discard_or_expand_positions(
                                    positions.metadata, positions.n, positions.L,
                                    positions.prior_val, positions.del_t, positions.ins_t,
                                    positions.match_prior_threshold, positions.ins_long,
                                    positions.k)]
    /\ UNCHANGED <<faVars, fasta_file, alignment, alVars, ukVars, dsVars, run, decoder, mods>>

PositionsNext == GetPositions

SpecPositions == PositionsInit /\ [][PositionsNext]_vars

\* ------------------------------------------------------------------ SequenceDataset
\* A string is the array of its characters; a record of a sequence file is its
\* identifier and its sequence string.

\* SequenceDataset.alphabet
alphabet ==
    <<"A", "R", "N", "D", "C", "Q", "E", "G", "H", "I", "L", "K",
      "M", "F", "P", "S", "T", "W", "Y", "V", "X", "U", "O", "-">>

\* str.upper on a character
upper(aa) ==
    LET upper_case == <<"A", "B", "C", "D", "E", "F", "G", "H", "I", "J", "K", "L", "M",
                        "N", "O", "P", "Q", "R", "S", "T", "U", "V", "W", "X", "Y", "Z">>
        lower_case == <<"a", "b", "c", "d", "e", "f", "g", "h", "i", "j", "k", "l", "m",
                        "n", "o", "p", "q", "r", "s", "t", "u", "v", "w", "x", "y", "z">>
        found == {t \in DOMAIN lower_case : lower_case[t] = aa}
    IN  IF found = {} THEN aa ELSE upper_case[CHOOSE t \in found : TRUE]

\* seq_str.replace(s, by) for a character s and a string by
str_replace(seq_str, s, by) ==
    Flatten([t \in DOMAIN seq_str |-> IF seq_str[t] = s THEN by ELSE <<seq_str[t]>>])

\* for s in symbols: seq_str = seq_str.replace(s, by)
RECURSIVE replace_each(_, _, _)
replace_each(seq_str, symbols, by) ==
    IF symbols = <<>> THEN seq_str
    ELSE replace_each(str_replace(seq_str, Head(symbols), by), Tail(symbols), by)

\* the defaults of get_encoded_seq's arguments gap_symbols and replace_with_x
gap_symbols == <<"-", ".">>

replace_with_x == <<"B", "Z", "J">>

\* lines 45-58: the string that is validated and encoded
prepared_seq_keeps_gaps(seq, remove_gaps) ==
    replace_each([t \in DOMAIN seq |-> upper(seq[t])], replace_with_x, <<"X">>)

prepared_seq(seq, remove_gaps) ==
    LET seq_str == replace_each([t \in DOMAIN seq |-> upper(seq[t])], replace_with_x, <<"X">>)
    IN  IF remove_gaps THEN replace_each(seq_str, gap_symbols, <<>>)
        ELSE replace_each(seq_str, gap_symbols, <<gap_symbols[1]>>)

\* lines 60-62: the regular expression finds a character that is not of the alphabet
get_encoded_seq_raises(seq, remove_gaps) ==
    LET seq_str == prepared_seq(seq, remove_gaps)
    IN  \E t \in DOMAIN seq_str : seq_str[t] \notin Elems(alphabet)

\* alphabet.index(aa)
alphabet_index(aa) == FirstIndex(alphabet, aa) - 1

\* line 63, for a sequence get_encoded_seq does not raise on
get_encoded_seq(seq, remove_gaps) ==
    LET seq_str == prepared_seq(seq, remove_gaps)
    IN  [t \in DOMAIN seq_str |-> alphabet_index(seq_str[t])]

\* line 29: SeqIO.to_dict raises ValueError on a key it has seen already; the keys of the
\* dictionary keep the order of the file
to_dict_raises(records) ==
    \E a, b \in DOMAIN records : a # b /\ records[a].id = records[b].id

\* lines 22-33, for the records parsed from the file, not indexed; np.amax raises
\* ValueError on an empty array
SequenceDataset_init(records) ==
    IF to_dict_raises(records) THEN [raised |-> "ValueError: Duplicate key"]
    ELSE IF records = <<>> THEN [raised |-> "ValueError: zero-size array"]
    ELSE [raised |-> "",
          record_dict |-> records,
          seq_ids |-> [t \in DOMAIN records |-> records[t].id],
          seq_lens |-> [t \in DOMAIN records |-> Len(records[t].seq)],
          max_len |-> SeqMax([t \in DOMAIN records |-> Len(records[t].seq)]),
          num_seq |-> Len(records)]

\* lines 66-79: the message of the ValueError raised, "" when none is raised
validate_dataset(seq_ids, single_seq_ok, empty_seq_id_ok, dublicate_seq_id_ok) ==
    IF Len(seq_ids) = 1 /\ ~single_seq_ok THEN "contains only a single sequence"
    ELSE IF Len(seq_ids) = 0 THEN "Could not parse any sequences"
    ELSE IF ~empty_seq_id_ok /\ \E t \in DOMAIN seq_ids : seq_ids[t] = ""
    THEN "contains an empty sequence ID"
    ELSE IF Len(seq_ids) > Cardinality(Elems(seq_ids)) /\ ~dublicate_seq_id_ok
    THEN "contains duplicated sequence IDs"
    ELSE ""

\* lines 108-111
AlignedDataset_validate_dataset(seq_ids, seq_lens) ==
    IF validate_dataset(seq_ids, FALSE, FALSE, FALSE) # ""
    THEN validate_dataset(seq_ids, FALSE, FALSE, FALSE)
    ELSE IF \E t \in DOMAIN seq_lens : seq_lens[t] # seq_lens[1]
    THEN "contains sequences of different lengths"
    ELSE ""

\* np.zeros((rows, width))
zeros(rows, width) == [r \in 1..rows |-> [c \in 1..width |-> 0]]

\* Pool.map without a chunksize: the tasks are cut into chunks of this size
pool_chunksize(n, threads) ==
    IF n % (threads * 4) # 0 THEN n \div (threads * 4) + 1 ELSE n \div (threads * 4)

\* the chunk of task i (0-based); a chunk is sent to a worker process together with a
\* pickled copy of partial(_write_row, self, msa_matrix, dtype)
chunk_of(ii, n, threads) == ii \div pool_chunksize(n, threads) + 1

num_chunks(n, threads) == chunk_of(n - 1, n, threads)

\* lines 126-127: m[i,:] = data.get_encoded_seq(i, remove_gaps=False) on the matrix m
\* of the process that runs the task
_write_row(data, m, ii) == [m EXCEPT ![ii + 1] = get_encoded_seq(data[ii + 1].seq, FALSE)]

\* line 98: msa_matrix != alphabet.index('-')-1
column_is_residue(code) == code # alphabet_index("-") - 1

\* lines 98-101: per row the columns where the running count of line 98 rises, all rows
\* concatenated
column_map(msa_matrix) ==
    Flatten([r \in DOMAIN msa_matrix |->
                Masked(arange(Len(msa_matrix[r])),
                       [c \in DOMAIN msa_matrix[r] |-> column_is_residue(msa_matrix[r][c])])])

\* lines 102-104: the sum of the lengths of the sequences before sequence i (0-based)
starting_pos(seq_lens, ii) == SumSeq(SubSeq(seq_lens, 1, ii))

\* x[s:e] for 0 <= s <= e
Slice(x, s, e) == SubSeq(x, s + 1, Min(e, Len(x)))

\* lines 114-117 on a constructed AlignedDataset
get_column_map(obj, ii) ==
    Slice(obj.column_map, starting_pos(obj.seq_lens, ii),
          starting_pos(obj.seq_lens, ii) + obj.seq_lens[ii + 1])

\* ------------------------------------------------------------------ SpecDataset
\* identifiers of the records of a file
SeqIds == {"", "s1", "s2"}

\* records of an alignment file: rows with gaps of both kinds, lower case, a residue
\* folded into X and the residue O under every identifier, a row with a character that
\* is not of the alphabet, a shorter row
msa_records ==
    ([id : SeqIds, seq : {<<"A", "-", "c">>, <<"b", ".", "O">>}])
        \cup {[id |-> "s1", seq |-> <<"A", "A", "*">>], [id |-> "s2", seq |-> <<"A", "C">>]}

\* characters of the sequences given to get_encoded_seq
seq_symbols == {"A", "c", "b", "Z", "J", "-", ".", "*"}

\* the strings of n characters
Strings(n) == [1..n -> seq_symbols]

\* what a file holds: up to MaxRecords records with rows of an alignment, or one record
\* with any string of up to MaxResidues characters
Files ==
    (UNION {[1..n -> msa_records] : n \in 0..MaxRecords})
        \cup (UNION {{<<[id |-> "s1", seq |-> str]>> : str \in Strings(n)} : n \in 0..MaxResidues})

\* a file to load
DatasetInit ==
    /\ \E file \in Files :
          dataset = [pc |-> "file",
                     cls |-> "",
                     file |-> file,
                     threads |-> 0,
                     obj |-> Unset,
                     msa_matrix |-> <<>>,
                     copies |-> <<>>,
                     todo |-> {},
                     call |-> [op |-> "none"]]
    /\ cell = Unset /\ ins_block = Unset /\ decode_call = Unset
    /\ run = Unset /\ decoder = Unset /\ mods = Unset /\ positions = Unset
    /\ fasta_file = Unset /\ alignment = Unset
    /\ FaIdle
    /\ AlIdle
    /\ UkIdle

DatasetUnchanged ==
    UNCHANGED <<faVars, fasta_file, alignment, alVars, ukVars, run, decoder, mods, positions, cell, ins_block, decode_call>>

\* SequenceDataset(filename, fmt)
NewSequenceDataset ==
    /\ dataset.pc = "file"
    /\ LET obj == SequenceDataset_init(dataset.file)
       IN  dataset' = [dataset EXCEPT !.pc = IF obj.raised # "" THEN "raised" ELSE "SequenceDataset",
                                      !.cls = "SequenceDataset",
                                      !.obj = obj]
    /\ DatasetUnchanged

\* validate_dataset(single_seq_ok, empty_seq_id_ok, dublicate_seq_id_ok)
ValidateDataset ==
    /\ dataset.pc = "SequenceDataset"
    /\ \E single_seq_ok, empty_seq_id_ok, dublicate_seq_id_ok \in BOOLEAN :
          dataset' = [dataset EXCEPT !.call =
                         [op |-> "validate_dataset",
                          single_seq_ok |-> single_seq_ok,
                          empty_seq_id_ok |-> empty_seq_id_ok,
                          dublicate_seq_id_ok |-> dublicate_seq_id_ok,
                          raised |-> validate_dataset(dataset.obj.seq_ids, single_seq_ok,
                                                      empty_seq_id_ok, dublicate_seq_id_ok)]]
    /\ DatasetUnchanged

\* get_encoded_seq(i, remove_gaps)
GetEncodedSeq ==
    /\ dataset.pc \in {"SequenceDataset", "AlignedDataset"}
    /\ \E ii \in 0..(dataset.obj.num_seq - 1) :
       \E remove_gaps \in BOOLEAN :
          LET seq == dataset.obj.record_dict[ii + 1].seq
          IN  dataset' = [dataset EXCEPT !.call =
                             IF get_encoded_seq_raises(seq, remove_gaps)
                             THEN [op |-> "get_encoded_seq", i |-> ii,
                                   remove_gaps |-> remove_gaps, raised |-> "ValueError"]
                             ELSE [op |-> "get_encoded_seq", i |-> ii,
                                   remove_gaps |-> remove_gaps, raised |-> "",
                                   result |-> get_encoded_seq(seq, remove_gaps)]]
    /\ DatasetUnchanged

\* AlignedDataset(filename, fmt, threads=threads) up to p.map of line 123: the
\* constructor of SequenceDataset, validate_dataset, the matrix of zeros and one pickled
\* copy of it per chunk of tasks
NewAlignedDataset ==
    /\ dataset.pc = "file"
    /\ \E threads \in 1..MaxThreads :
       LET obj == SequenceDataset_init(dataset.file)
           invalid == AlignedDataset_validate_dataset(obj.seq_ids, obj.seq_lens)
           msa_matrix == zeros(obj.num_seq, obj.seq_lens[1])
       IN  IF obj.raised # ""
           THEN dataset' = [dataset EXCEPT !.pc = "raised", !.cls = "AlignedDataset", !.threads = threads, !.obj = obj]
           ELSE IF invalid # ""
           THEN dataset' = [dataset EXCEPT !.pc = "raised", !.cls = "AlignedDataset", !.threads = threads,
                                           !.obj = [raised |-> invalid]]
           ELSE dataset' = [dataset EXCEPT
                               !.pc = "pool",
                               !.cls = "AlignedDataset", !.threads = threads,
                               !.obj = obj,
                               !.msa_matrix = msa_matrix,
                               !.copies = [ch \in 1..num_chunks(obj.num_seq, threads) |->
                                              msa_matrix],
                               !.todo = 0..(obj.num_seq - 1)]
    /\ DatasetUnchanged

\* a worker process runs _write_row for task i, the next of its chunk, on the copy of
\* the matrix that came with the chunk; a ValueError of get_encoded_seq is raised
\* again by p.map in the constructor
WriteRow ==
    /\ dataset.pc = "pool"
    /\ \E ii \in dataset.todo :
          LET n == dataset.obj.num_seq
              ch == chunk_of(ii, n, dataset.threads)
          IN  /\ \A j \in dataset.todo : chunk_of(j, n, dataset.threads) = ch => ii <= j
              /\ IF get_encoded_seq_raises(dataset.obj.record_dict[ii + 1].seq, FALSE)
                 THEN dataset' = [dataset EXCEPT !.pc = "raised",
                                                 !.obj = [raised |-> "ValueError"]]
                 ELSE dataset' = [dataset EXCEPT
                                     !.copies[ch] = _write_row(dataset.obj.record_dict, @, ii),
                                     !.todo = @ \ {ii}]
    /\ DatasetUnchanged

\* every task is done: p.map returns, the pool is left, _get_msa_matrix returns the
\* matrix of the constructing process and lines 98-105 follow
GetMsaMatrix ==
    /\ dataset.pc = "pool"
    /\ dataset.todo = {}
    /\ dataset' = [dataset EXCEPT
                      !.pc = "AlignedDataset",
                      !.obj = [raised |-> "",
                               record_dict |-> dataset.obj.record_dict,
                               seq_ids |-> dataset.obj.seq_ids,
                               seq_lens |-> dataset.obj.seq_lens,
                               max_len |-> dataset.obj.max_len,
                               num_seq |-> dataset.obj.num_seq,
                               msa_matrix |-> dataset.msa_matrix,
                               column_map |-> column_map(dataset.msa_matrix),
                               alignment_len |-> Len(dataset.msa_matrix[1])]]
    /\ DatasetUnchanged

\* get_column_map(i)
GetColumnMap ==
    /\ dataset.pc = "AlignedDataset"
    /\ \E ii \in 0..(dataset.obj.num_seq - 1) :
          dataset' = [dataset EXCEPT !.call =
                         [op |-> "get_column_map", i |-> ii,
                          result |-> get_column_map(dataset.obj, ii)]]
    /\ DatasetUnchanged

DatasetNext ==
    \/ NewSequenceDataset
    \/ ValidateDataset
    \/ GetEncodedSeq
    \/ NewAlignedDataset
    \/ WriteRow
    \/ GetMsaMatrix
    \/ GetColumnMap

SpecDataset == DatasetInit /\ [][DatasetNext]_vars

\* ------------------------------------------------------------------ MsaHmmCell
\* A tensor entry is an exact fraction <<numerator, denominator>> in lowest terms with
\* a positive denominator, or nan; the cell is modelled for one model (num_models = 1).
nan == <<0, 0>>

RECURSIVE Gcd(_, _)
Gcd(a, b) == IF b = 0 THEN a ELSE Gcd(b, a % b)

Frac(a, b) == <<a \div Gcd(a, b), b \div Gcd(a, b)>>

FracAdd(x, y) ==
    IF x = nan \/ y = nan THEN nan
    ELSE LET g == Gcd(x[2], y[2])
         IN  Frac(x[1] * (y[2] \div g) + y[1] * (x[2] \div g), (x[2] \div g) * y[2])

FracMul(x, y) ==
    IF x = nan \/ y = nan THEN nan
    ELSE IF x[1] = 0 \/ y[1] = 0 THEN <<0, 1>>
    ELSE LET g == Gcd(x[1], y[2])
             h == Gcd(y[1], x[2])
         IN  <<(x[1] \div g) * (y[1] \div h), (x[2] \div h) * (y[2] \div g)>>

\* x / y for x >= 0 and y >= 0, where y = 0 only if x = 0: zero by zero is nan
FracDiv(x, y) == IF x = nan \/ y = nan \/ y[1] = 0 THEN nan ELSE FracMul(x, <<y[2], y[1]>>)

\* tf.reduce_sum over the state axis
RECURSIVE reduce_sum(_)
reduce_sum(x) == IF x = <<>> THEN <<0, 1>> ELSE FracAdd(Head(x), reduce_sum(Tail(x)))

\* tf.multiply: the elementwise product
multiply(x, y) == [q \in DOMAIN x |-> FracMul(x[q], y[q])]

\* the rows of w, each divided by its sum
RowNormalized(w) == [q \in DOMAIN w |-> [j \in DOMAIN w[q] |-> Frac(w[q][j], SumSeq(w[q]))]]

\* the sequence symbols a cell is stepped over: two residues and the terminal symbol
\* that pads a sequence
cell_residues == <<"a", "b">>

terminal_symbol == "$"

\* the parameter sets of a model of one match state, emitting states 0 (left flank),
\* 1 (match), 2 (unannotated segment), 3 (right flank), 4 (terminal): transition
\* weights with the delete states folded in (positive wherever the model has a
\* transition), weights of entering a state, and the emission weights of the residues
CellParams ==
    {[A |-> << <<1, 1, 2, 2, 2>>, <<0, 0, 1, 1, 2>>, <<0, 1, 1, 1, 1>>,
               <<0, 0, 0, 3, 1>>, <<0, 0, 0, 0, 1>> >>,
      init_dist |-> <<1, 4, 1, 1, 1>>,
      B |-> << <<1, 1>>, <<3, 1>>, <<1, 1>>, <<1, 1>> >>],
     [A |-> << <<2, 2, 1, 1, 2>>, <<0, 0, 2, 1, 1>>, <<0, 1, 1, 1, 1>>,
               <<0, 0, 0, 1, 1>>, <<0, 0, 0, 0, 1>> >>,
      init_dist |-> <<2, 2, 1, 1, 2>>,
      B |-> << <<1, 3>>, <<1, 1>>, <<1, 1>>, <<3, 1>> >>]}

\* the emitter called on a sequence position: the probability of the symbol per state;
\* the terminal state emits the terminal symbol and nothing else
emission_probs(params, input) ==
    IF input = terminal_symbol
    THEN [q \in DOMAIN params.A |-> IF q = Len(params.A) THEN <<1, 1>> ELSE <<0, 1>>]
    ELSE LET B == RowNormalized(params.B)
         IN  [q \in DOMAIN params.A |->
                 IF q = Len(params.A) THEN <<0, 1>>
                 ELSE B[q][FirstIndex(cell_residues, input)]]

\* transitioner.make_initial_distribution()
make_initial_distribution(params) == RowNormalized(<<params.init_dist>>)[1]

\* the transitioner called on the old scaled forward vector: the product with the
\* dense transition matrix
transitioner(params, old_scaled_forward) ==
    LET A == RowNormalized(params.A)
    IN  [j \in DOMAIN A |->
            reduce_sum([q \in DOMAIN A |-> FracMul(old_scaled_forward[q], A[q][j])])]

forward_always_transition(params, init, E, old_scaled_forward) ==
    multiply(E, transitioner(params, old_scaled_forward))

\* lines 88-93: the forward vector before scaling
forward(params, init, E, old_scaled_forward) ==
    IF init THEN multiply(E, old_scaled_forward)
    ELSE multiply(E, transitioner(params, old_scaled_forward))

scaled_unscaled(scaled_forward, S) == scaled_forward

\* line 96: scaled_forward /= S
scaled(scaled_forward, S) == [q \in DOMAIN scaled_forward |-> FracDiv(scaled_forward[q], S)]

\* lines 80-101 for one batch entry: the new state; loglik is kept as the array of the
\* normalizers whose logarithms it sums, old_loglik + tf.math.log(S) appends S
MsaHmmCell_call(params, init, input, state) ==
    LET E == emission_probs(params, input)
        scaled_forward == forward(params, init, E, state.scaled_forward)
        S == reduce_sum(scaled_forward)
    IN  [scaled_forward |-> scaled(scaled_forward, S),
         loglik |-> Append(state.loglik, S)]

\* ------------------------------------------------------------------ SpecCell
\* the encoded sequences of a batch: residues, padded with the terminal symbol to the
\* length of the scan
PaddedSeqs(len) ==
    UNION {{str \o Repeat(terminal_symbol, len - n) : str \in [1..n -> Elems(cell_residues)]} :
              n \in 0..(len - 1)}

\* a padded sequence without its last residue
Shortened(str) ==
    [t \in DOMAIN str |->
        IF t = Len(str) \/ str[t + 1] = terminal_symbol THEN terminal_symbol ELSE str[t]]

\* the batches of one sequence, and of a sequence and a shorter one
Batches(len) ==
    {<<str>> : str \in PaddedSeqs(len)} \cup {<<str, Shortened(str)>> : str \in PaddedSeqs(len)}

\* a cell that is built and the batch it is stepped over, inputs[t][b] the symbol of
\* sequence b at position t; has_init: the attribute init exists, scans: no scan
\* yet, the first scan, or a scan after the first
CellInit ==
    /\ \E params \in CellParams :
       \E len \in 1..MaxScanLen :
       \E inputs \in Batches(len) :
          cell = [params |-> params,
                  has_init |-> FALSE,
                  init |-> FALSE,
                  init_dist |-> <<>>,
                  inputs |-> [t \in 1..len |-> [b \in DOMAIN inputs |-> inputs[b][t]]],
                  states |-> <<>>,
                  step |-> 0,
                  scans |-> "none",
                  prepared |-> FALSE,
                  scan_prepared |-> FALSE,
                  disturbed |-> FALSE,
                  branch |-> "",
                  raised |-> ""]
    /\ dataset = Unset /\ ins_block = Unset /\ decode_call = Unset
    /\ run = Unset /\ decoder = Unset /\ mods = Unset /\ positions = Unset
    /\ fasta_file = Unset /\ alignment = Unset
    /\ FaIdle
    /\ AlIdle
    /\ UkIdle

CellUnchanged ==
    UNCHANGED <<faVars, fasta_file, alignment, alVars, ukVars, run, decoder, mods, positions, dataset, ins_block, decode_call>>

\* recurrent_init(), lines 51-58; prepared: it was called since the last step,
\* disturbed: it was called between two steps of the scan
RecurrentInit ==
    /\ cell.raised = ""
    /\ ~cell.prepared
    /\ cell' = [cell EXCEPT !.has_init = TRUE,
                            !.init = TRUE,
                            !.init_dist = make_initial_distribution(cell.params),
                            !.prepared = TRUE,
                            !.disturbed = @ \/ (/\ cell.scans # "none"
                                                 /\ 0 < cell.step
                                                 /\ cell.step < Len(cell.inputs))]
    /\ CellUnchanged

\* get_initial_state(batch_size), lines 103-109: a scan over the batch begins
GetInitialState ==
    /\ cell.raised = ""
    /\ cell.scans = "none" \/ (cell.scans = "first" /\ cell.step = Len(cell.inputs))
    /\ cell' = [cell EXCEPT
                   !.states = [b \in DOMAIN cell.inputs[1] |->
                                  [scaled_forward |-> make_initial_distribution(cell.params),
                                   loglik |-> <<>>]],
                   !.step = 0,
                   !.scans = IF cell.scans = "none" THEN "first" ELSE "later",
                   !.disturbed = FALSE,
                   !.branch = ""]
    /\ CellUnchanged

\* call(inputs, states), lines 80-101: one step of the scan; without an attribute init
\* line 88 raises AttributeError
CellCall ==
    /\ cell.raised = ""
    /\ cell.scans # "none"
    /\ cell.step < Len(cell.inputs)
    /\ IF ~cell.has_init
       THEN cell' = [cell EXCEPT !.raised = "AttributeError"]
       ELSE cell' = [cell EXCEPT
                        !.states = [b \in DOMAIN cell.states |->
                                       MsaHmmCell_call(cell.params, cell.init,
                                                       cell.inputs[cell.step + 1][b],
                                                       cell.states[b])],
                        !.init = FALSE,
                        !.step = @ + 1,
                        !.prepared = FALSE,
                        !.scan_prepared = IF cell.step = 0 THEN cell.prepared ELSE @,
                        !.branch = IF cell.init THEN "initial" ELSE "transition"]
    /\ CellUnchanged

CellNext ==
    \/ RecurrentInit
    \/ GetInitialState
    \/ CellCall

SpecCell == CellInit /\ [][CellNext]_vars

\* ------------------------------------------------------------------ SpecInsertionBlock
\* the residue codes of sequence r of a batch, all different within the row
block_sequence(r) == [t \in 1..MaxSeqLen |-> (5 * (r - 1) + t - 1) % (fasta_s - 1)]

\* a call of get_insertion_block that is about to be made: a batch of sequences and,
\* for each, a run inside the sequence that is no longer than the block is wide
InsertionInit ==
    /\ \E n \in 1..MaxSeqs :
       \E maxlen \in 0..MaxSeqLen :
       \E lens \in [1..n -> 0..maxlen] :
       \E starts \in [1..n -> 0..MaxSeqLen] :
       \E align_to_right \in BOOLEAN :
          /\ \A r \in 1..n : starts[r] + lens[r] <= MaxSeqLen
          /\ ins_block = [op |-> "init",
                          sequences |-> [r \in 1..n |-> block_sequence(r)],
                          lens |-> lens,
                          maxlen |-> maxlen,
                          starts |-> starts,
                          align_to_right |-> align_to_right,
                          block |-> <<>>]
    /\ dataset = Unset /\ cell = Unset /\ decode_call = Unset
    /\ run = Unset /\ decoder = Unset /\ mods = Unset /\ positions = Unset
    /\ fasta_file = Unset /\ alignment = Unset
    /\ FaIdle
    /\ AlIdle
    /\ UkIdle

\* get_insertion_block(sequences, lens, maxlen, starts, align_to_right)
GetInsertionBlock ==
    /\ ins_block.op = "init"
    /\ ins_block' = [ins_block EXCEPT
                        !.op = "get_insertion_block",
                        !.block = get_insertion_block(ins_block.sequences, ins_block.lens,
                                                      ins_block.maxlen, ins_block.starts,
                                                      ins_block.align_to_right)]
    /\ UNCHANGED <<faVars, fasta_file, alignment, alVars, ukVars, run, decoder, mods, positions, dataset, cell, decode_call>>

InsertionNext == GetInsertionBlock

SpecInsertionBlock == InsertionInit /\ [][InsertionNext]_vars

\* ------------------------------------------------------------------ SpecDecodeLoop: decode
\* the model length of the decoded paths
decode_model_length == 3

\* the state codes a generated path is made of: left flank, a match state, the
\* unannotated segment, right flank
decode_codes(c) == {0, 1, 2 * c, 2 * c + 1}

\* the state paths of one sequence: any codes for its residues, well-formed or not,
\* then the terminal state up to the width max_len + 1
StatePaths(c, max_len) ==
    UNION {{p \o Repeat(2 * c + 2, max_len + 1 - len) : p \in [1..len -> decode_codes(c)]} :
              len \in 0..max_len}

\* the path of a second sequence: a match, an insertion, an unannotated segment, a
\* match and the right flank
CompanionPath(c, max_len) ==
    <<1, c + 1, 2 * c, 2, 2 * c + 1>> \o Repeat(2 * c + 2, max_len + 1 - 5)

\* lines 225-233: what a call of decode_core starts with
core_start(n, c) ==
    [consensus_columns |-> Repeat(Repeat(-1, c), n),
     insertion_lens |-> Repeat(Repeat(0, c - 1), n),
     insertion_start |-> Repeat(Repeat(-1, c - 1), n),
     last_insert |-> Repeat(FALSE, n)]

\* line 236 / line 273: the state code under the cursor of each sequence
states_at(state_seqs, indices) == [r \in DOMAIN state_seqs |-> state_seqs[r][indices[r] + 1]]

\* a call of decode that is about to run line 298; work holds the local variables of
\* the decode_flank / decode_core call that is running
DecodeLoopInit ==
    /\ \E p \in StatePaths(decode_model_length, MaxDecodeLen) :
       \E others \in {<<>>, <<CompanionPath(decode_model_length, MaxDecodeLen)>>} :
          decode_call = [pc |-> "left_flank",
                      model_length |-> decode_model_length,
                      state_seqs_max_lik |-> <<p>> \o others,
                      indices |-> Repeat(0, 1 + Len(others)),
                      work |-> [insertion_start |-> Repeat(0, 1 + Len(others))],
                      left_flank |-> <<>>,
                      core_blocks |-> <<>>,
                      unannotated_segments |-> <<>>,
                      right_flank |-> <<>>]
    /\ dataset = Unset /\ cell = Unset /\ ins_block = Unset
    /\ run = Unset /\ decoder = Unset /\ mods = Unset /\ positions = Unset
    /\ fasta_file = Unset /\ alignment = Unset
    /\ FaIdle
    /\ AlIdle
    /\ UkIdle

DecodeLoopUnchanged ==
    UNCHANGED <<faVars, fasta_file, alignment, alVars, ukVars, run, decoder, mods, positions, dataset, cell, ins_block>>

\* the flank state decode passes to decode_flank at lines 298, 306 and 307
flank_state_of(pc_now, c) ==
    IF pc_now = "left_flank" THEN 0 ELSE IF pc_now = "unannotated" THEN 2 * c ELSE 2 * c + 1

\* one pass of the loop of decode_flank (lines 272-277), and on its exit lines 278-279
\* and what decode does with the result (lines 298, 306, 307)
DecodeFlankPass ==
    /\ decode_call.pc \in {"left_flank", "unannotated", "right_flank"}
    /\ LET c == decode_call.model_length
           n == Len(decode_call.state_seqs_max_lik)
           q == states_at(decode_call.state_seqs_max_lik, decode_call.indices)
           is_flank == [r \in 1..n |-> q[r] = flank_state_of(decode_call.pc, c)]
           flank == [insertion_lens |-> [r \in 1..n |->
                                            decode_call.indices[r] - decode_call.work.insertion_start[r]],
                     insertion_start |-> decode_call.work.insertion_start]
       IN  decode_call' =
             IF \E r \in 1..n : is_flank[r]
             THEN [decode_call EXCEPT !.indices = [r \in 1..n |-> IF is_flank[r] THEN @[r] + 1 ELSE @[r]]]
             ELSE IF decode_call.pc = "left_flank"
             THEN [decode_call EXCEPT !.left_flank = flank,
                                   !.pc = "decode_core",
                                   !.work = core_start(n, c)]
             ELSE IF decode_call.pc = "unannotated"
             THEN [decode_call EXCEPT !.unannotated_segments = Append(@, flank),
                                   !.pc = "decode_core",
                                   !.work = core_start(n, c)]
             ELSE [decode_call EXCEPT !.right_flank = flank,
                                   !.pc = "returned",
                                   !.work = <<>>]
    /\ DecodeLoopUnchanged

\* one pass of the loop of decode_core (lines 235-253), and on its exit line 254 and
\* lines 303-306 of decode. A pass that moves no cursor and leaves the loop's variables
\* as they are is followed by the same pass again: the call never returns.
DecodeCorePass ==
    /\ decode_call.pc = "decode_core"
    /\ LET c == decode_call.model_length
           n == Len(decode_call.state_seqs_max_lik)
           q == states_at(decode_call.state_seqs_max_lik, decode_call.indices)
           w == decode_call.work
           finished == [r \in 1..n |-> ~is_unannotated(q[r], c)]
           block == [consensus_columns |-> w.consensus_columns,
                     insertion_lens |-> w.insertion_lens,
                     insertion_start |-> w.insertion_start,
                     finished |-> finished]
           tracked ==
               [consensus_columns |->
                    [r \in 1..n |-> IF is_match(q[r], c)
                                    THEN [w.consensus_columns[r] EXCEPT ![q[r]] = decode_call.indices[r]]
                                    ELSE w.consensus_columns[r]],
                insertion_lens |->
                    [r \in 1..n |-> IF is_insert(q[r], c)
                                    THEN [w.insertion_lens[r] EXCEPT ![q[r] - c] = @ + 1]
                                    ELSE w.insertion_lens[r]],
                insertion_start |->
                    [r \in 1..n |-> IF is_insert(q[r], c) /\ ~w.last_insert[r]
                                    THEN [w.insertion_start[r] EXCEPT ![q[r] - c] = decode_call.indices[r]]
                                    ELSE w.insertion_start[r]],
                last_insert |-> [r \in 1..n |-> is_insert(q[r], c)]]
       IN  decode_call' =
             IF \A r \in 1..n : is_unannotated(q[r], c) \/ is_at_end(q[r], c)
             THEN [decode_call EXCEPT
                      !.core_blocks = Append(@, block),
                      !.pc = IF \A r \in 1..n : finished[r] THEN "right_flank" ELSE "unannotated",
                      !.work = [insertion_start |-> decode_call.indices]]
             ELSE [decode_call EXCEPT
                      !.work = tracked,
                      !.indices = [r \in 1..n |->
                                     IF is_match(q[r], c) \/ is_insert(q[r], c) THEN @[r] + 1 ELSE @[r]]]
    /\ DecodeLoopUnchanged

DecodeLoopNext == DecodeFlankPass \/ DecodeCorePass

SpecDecodeLoop == DecodeLoopInit /\ [][DecodeLoopNext]_vars

\* decode runs on: a pass that can be taken is taken
LiveDecodeLoop == SpecDecodeLoop /\ WF_vars(DecodeLoopNext)

\* ------------------------------------------------------------------ claims: fit_and_align
\* a round has been trained
HasTrained == pc \in {"final", "surgery", "done", "SystemExit", "KeyError"} \/ (pc = "loop" /\ i > 0)

AllSeqs == arange(fasta_file.num_seq)

\* C1: fit_and_align trains at most max_surgery_runs rounds; the round after a converged
\* round is final, the round with index max_surgery_runs-1 is final, and the alignment it
\* returns is the one of the last round trained, which is a final round.
C1_LastRoundIsFinal ==
    HasTrained =>
        /\ trained.i + 1 <= config.max_surgery_runs
        /\ (trained.i > 0 /\ trained.converged_before) => trained.last_iteration
        /\ (trained.i = config.max_surgery_runs - 1) => trained.last_iteration
        /\ (pc = "done") => /\ trained.last_iteration
                            /\ result.round = trained.i
                            /\ result.scored

\* a run that did not converge and returned from the forced final round
C1_Witness ==
    /\ pc = "done"
    /\ config.max_surgery_runs >= 3
    /\ trained.i = config.max_surgery_runs - 1
    /\ ~trained.converged_before

\* C3: every model length passed to training is >= 3, and a member whose length fell
\* below 3 in surgery aborts the run before another round is trained.
C3_LengthAtLeastThree ==
    /\ HasTrained => \A m \in DOMAIN trained.model_lengths : trained.model_lengths[m] >= 3
    /\ (pc # "start" /\ \E m \in DOMAIN model_lengths : model_lengths[m] < 3)
           => pc = "SystemExit"

\* surgery left a member with two match states and the run aborted
C3_Witness ==
    /\ pc = "SystemExit"
    /\ \E m \in DOMAIN model_lengths : model_lengths[m] = 2
    /\ trained.i >= 1

\* C4: the final round trains on all sequences and decodes the subset (all sequences when
\* no subset was given); every other round trains and decodes on the full-length estimate.
C4_TrainAndDecodeIndices ==
    HasTrained =>
        IF trained.last_iteration
        THEN /\ trained.train_indices = AllSeqs
             /\ trained.decode_indices = (IF subset.given THEN subset.ids ELSE AllSeqs)
             /\ alignment.indices = trained.decode_indices
        ELSE /\ trained.train_indices = full_length_estimate
             /\ trained.decode_indices = full_length_estimate
             /\ alignment.indices = full_length_estimate

\* a final round after surgery rounds, with a proper subset to decode and a full-length
\* estimate that is not the whole file
C4_Witness ==
    /\ pc = "done"
    /\ trained.i >= 1
    /\ subset.given /\ Len(subset.ids) = 1
    /\ Len(full_length_estimate) < fasta_file.num_seq
    /\ trained.train_indices = AllSeqs

\* C8 as stated: the final round's Alignment is decoded at construction, the Alignment
\* of every earlier round is not.
C8_FinalEagerOthersLazy ==
    HasTrained =>
        trained.decoded_at_construction =
            (IF trained.last_iteration THEN 0..(config.num_models - 1) ELSE {})

\* C8 amended: the final round's Alignment is built lazily (no metadata at construction),
\* the Alignment of every earlier round eagerly (metadata of every member at construction).
C8_FinalLazyOthersEager ==
    HasTrained =>
        trained.decoded_at_construction =
            (IF trained.last_iteration THEN {} ELSE 0..(config.num_models - 1))

\* a lazy final Alignment was returned after an eagerly decoded surgery round
C8_Witness ==
    /\ pc = "done"
    /\ trained.i >= 1
    /\ result.metadata = <<>>

\* C9: the batch size of a round is at most ceil(0.5 * number of sequences trained on).
C9_BatchAtMostHalfOfTrained ==
    HasTrained => trained.batch_size <= (Len(trained.train_indices) + 1) \div 2

\* C10 as stated: round 0 uses epochs[0], intermediate rounds epochs[1], the final round epochs[2].
C10_EpochsFinalAlwaysLast ==
    HasTrained =>
        /\ (trained.i = 0) => trained.epochs = config.epochs[1]
        /\ (trained.i > 0 /\ ~trained.last_iteration) => trained.epochs = config.epochs[2]
        /\ trained.last_iteration => trained.epochs = config.epochs[3]

\* C10 amended: round 0 uses epochs[0] also when it is the final round; a later round
\* uses epochs[1] when it is not final and epochs[2] when it is.
C10_EpochsSchedule ==
    HasTrained =>
        /\ (trained.i = 0) => trained.epochs = config.epochs[1]
        /\ (trained.i > 0 /\ ~trained.last_iteration) => trained.epochs = config.epochs[2]
        /\ (trained.i > 0 /\ trained.last_iteration) => trained.epochs = config.epochs[3]

\* a final round with index 2, reached through round 0 and an intermediate round
C10_Witness ==
    /\ pc = "done"
    /\ trained.i >= 2
    /\ trained.epochs = config.epochs[3]

\* ------------------------------------------------------------------ claims: update_kernels
\* the model length after the plan: L - |pos_discard| + sum(expansion_lens)
NewLength == surgery.L - Len(surgery.pos_discard) + SumSeq(surgery.expansion_lens)

KeysL == {"emission", "begin_to_match", "match_to_end", "match_to_delete", "delete_to_match"}

\* C5 as stated: update_kernels returns kernels index-aligned for the new length L': L'
\* entries for emission, begin_to_match, match_to_end, match_to_delete, delete_to_match and
\* L'-1 entries for the other five transition kernels.
C5_KernelsAligned ==
    kernels # Unset =>
        /\ ~kernels.raised
        /\ \A key \in KeysL : Len(kernels[key]) = NewLength
        /\ \A key \in KeysArgs1 : Len(kernels[key]) = NewLength - 1

\* C5 amended: the same for every plan that leaves at least one match state (L' >= 1).
C5_KernelsAlignedNonEmpty ==
    (kernels # Unset /\ NewLength >= 1) =>
        /\ ~kernels.raised
        /\ \A key \in KeysL : Len(kernels[key]) = NewLength
        /\ \A key \in KeysArgs1 : Len(kernels[key]) = NewLength - 1

\* update_kernels has run on a plan that discards every column and expands two positions
C5_Witness ==
    /\ kernels # Unset
    /\ Len(surgery.pos_discard) = surgery.L
    /\ Len(surgery.pos_expand) = 2
    /\ NewLength >= 3
    /\ ~kernels.raised

\* ------------------------------------------------------------------ claims: Alignment
\* the metadata of the model the last operation was about
CallMetaData == alignment.metadata[call.model_index]

\* an operation has rendered at least one sequence
Rendered(op) == call.op = op /\ Len(alignment.indices) > 0

\* C2: to_string returns the same strings in the same order whatever the batch size: the
\* result for any batch size equals the result with all decoded sequences in one batch.
C2_ToStringBatchIndependent ==
    Rendered("to_string") =>
        call.result = to_string(fasta_file, alignment.indices, CallMetaData,
                                Len(alignment.indices), call.add_block_sep)

\* C6: get_batch_alignment returns one row per batch index, every row as wide as the rows
\* of any other batch for the same model and add_block_sep, and without separators as
\* wide as the metadata's alignment_len.
C6_GlobalWidth ==
    Rendered("get_batch_alignment") =>
        /\ Len(call.result) = Len(call.batch_indices)
        /\ \A t \in DOMAIN call.result :
              /\ \A batch_indices \in BatchIndices(Len(alignment.indices)) :
                    Len(call.result[t]) =
                        Len(get_batch_alignment(fasta_file, alignment.indices, CallMetaData,
                                                batch_indices, call.add_block_sep)[1])
              /\ ~call.add_block_sep => Len(call.result[t]) = CallMetaData.alignment_len

\* the metadata a step keeps: what was cached is still cached, unchanged, and no Viterbi
\* run happened for a model that was cached
MetadataKept ==
    /\ \A m \in DOMAIN alignment.metadata :
          m \in DOMAIN alignment'.metadata /\ alignment'.metadata[m] = alignment.metadata[m]
    /\ DOMAIN alignment'.metadata \subseteq DOMAIN alignment.metadata \cup {call'.model_index}
    /\ alignment'.viterbi_runs =
          alignment.viterbi_runs + (IF DOMAIN alignment'.metadata = DOMAIN alignment.metadata
                                    THEN 0 ELSE 1)

\* C7 as stated: a lazy Alignment has no metadata after construction, every
\* get_batch_alignment, to_string and to_file for model m leaves the metadata of m built,
\* and no operation rebuilds, replaces or removes metadata that exists.
C7_BuiltOnFirstUse ==
    /\ (alignment.build = "lazy" => alignment.metadata = <<>>)
    /\ [][MetadataKept /\ call'.model_index \in DOMAIN alignment'.metadata]_vars

\* C7 amended: the same, where an operation for model m leaves the metadata of m built
\* when the Alignment decodes at least one sequence; over no sequence to_string and
\* to_file render no batch and build nothing.
C7_BuiltOnFirstRenderedBatch ==
    /\ (alignment.build = "lazy" => alignment.metadata = <<>>)
    /\ [][/\ MetadataKept
          /\ IF Len(alignment.indices) > 0
             THEN call'.model_index \in DOMAIN alignment'.metadata
             ELSE alignment'.metadata = <<>>]_vars

\* a lazy Alignment rendered a model from its cached metadata while the other model is
\* still not built
C7_Witness ==
    /\ alignment.build = "lazy"
    /\ call.op \in {"get_batch_alignment", "to_string", "to_file"}
    /\ call.cached
    /\ DOMAIN alignment.metadata = {call.model_index}
    /\ alignment.viterbi_runs = 1

\* ------------------------------------------------------------------ claims: get_full_length_estimate
\* the estimate has been computed: fit_and_align is past line 43
HasEstimate == pc # "start"

\* the sequences the estimate leaves out
LeftOut == (0..(fasta_file.num_seq - 1)) \ Elems(full_length_estimate)

\* C11 (as stated): the estimate is the k longest sequences, k = min(n*surgery_quantile,
\* max(0, n - min_surgery_seqs)), taken from the end of the length-sorted index
C11_KLongest ==
    HasEstimate =>
        LET n == fasta_file.num_seq
            kk == full_length_k(fasta_file, config)
        IN  full_length_estimate = SubSeq(fasta_file.sorted_indices, n - kk + 1, n)

\* C11 (amended): the estimate is every sequence but the k shortest: n - k distinct
\* sequences in ascending order of length, none shorter than a sequence left out
C11_AllButKShortest ==
    HasEstimate =>
        LET n == fasta_file.num_seq
            kk == full_length_k(fasta_file, config)
            len(a) == fasta_file.seq_lens[a + 1]
            fle == full_length_estimate
        IN  /\ Len(fle) = n - kk
            /\ Cardinality(Elems(fle)) = n - kk
            /\ Elems(fle) \subseteq 0..(n - 1)
            /\ \A a \in 1..Len(fle), b \in 1..Len(fle) : a < b => len(fle[a]) <= len(fle[b])
            /\ \A a \in Elems(fle), b \in LeftOut : len(b) <= len(a)

\* three sequences of different lengths, one of them left out: the two longest are kept
C11_Witness ==
    /\ HasEstimate
    /\ fasta_file.num_seq = 3
    /\ full_length_k(fasta_file, config) = 1
    /\ fasta_file.seq_lens = <<3, 2, 1>>
    /\ full_length_estimate = <<1, 0>>

\* ------------------------------------------------------------------ claims: run_learnMSA
\* the hint of lines 172-173 for the configured batch size
BatchSizeHint ==
    "Try reducing the batch size (-b). The current batch size was: "
        \o ToString(run.config.batch_size) \o "."

\* run_learnMSA has ended after fit_and_align ran out of a resource
EndedExhausted == run.pc = "ended" /\ run.fit.raised = "ResourceExhaustedError"

\* C12: when fitting fails with a resource-exhaustion error, run_learnMSA prints the hint
\* to reduce the batch size and ends the process with the exit code of the failure
C12_ExitsWithFailureCode ==
    EndedExhausted =>
        /\ BatchSizeHint \in Elems(run.printed)
        /\ run.ended = [raised |-> "SystemExit", code |-> run.fit.error_code]

\* ------------------------------------------------------------------ claims: decode_core
\* decode_core has been called
CoreDecoded == decoder.op = "decode_core"

\* the state of sequence r at offset t of its path (offsets count from 0)
StateAt(r, t) == decoder.state_seqs_max_lik[r][t + 1]

\* the state under the cursor decode_core was given for sequence r
CursorState(r) == StateAt(r, decoder.indices[r])

\* unannotated segment, right flank, terminal
StopStates == {2 * decoder.model_length, 2 * decoder.model_length + 1,
               2 * decoder.model_length + 2}

\* the first offset from the cursor of sequence r on that holds a stop state
StopOffset(r) ==
    CHOOSE j \in decoder.indices[r]..(Len(decoder.state_seqs_max_lik[r]) - 1) :
        /\ StateAt(r, j) \in StopStates
        /\ \A t \in decoder.indices[r]..(j - 1) : StateAt(r, t) \notin StopStates

\* the offsets of sequence r between its cursor and its stop that are in state q
VisitedIn(r, q) == {t \in decoder.indices[r]..(StopOffset(r) - 1) : StateAt(r, t) = q}

\* the least member of a non-empty set of offsets
Least(S) == CHOOSE t \in S : \A u \in S : t <= u

\* no cursor is on a left-flank state (decode moves the cursors behind the left flank
\* before it calls decode_core)
BehindLeftFlank == \A r \in DOMAIN decoder.indices : CursorState(r) # 0

\* C13: decode_core, started at the given cursors, records for each sequence the offset
\* of the residue at every match column it visits and -1 at the others, for every insert
\* state the number of residues emitted and the offset of the first of them; it stops a
\* sequence at its first unannotated, right-flank or terminal state, and finished is
\* true exactly for a sequence that stopped at a right-flank or terminal state
C13_DecodeCoreRecords ==
    (CoreDecoded /\ BehindLeftFlank) =>
        LET c == decoder.model_length
            res == decoder.result
        IN  /\ ~res.stuck
            /\ \A r \in DOMAIN decoder.indices :
                  /\ Len(res.consensus_columns[r]) = c
                  /\ Len(res.insertion_lens[r]) = c - 1
                  /\ Len(res.insertion_start[r]) = c - 1
                  /\ \A m \in 1..c :
                        res.consensus_columns[r][m] =
                            IF VisitedIn(r, m) = {} THEN -1 ELSE Least(VisitedIn(r, m))
                  /\ \A m \in 1..c : Cardinality(VisitedIn(r, m)) <= 1
                  /\ \A e \in 1..(c - 1) :
                        /\ res.insertion_lens[r][e] = Cardinality(VisitedIn(r, c + e))
                        /\ res.insertion_start[r][e] =
                               IF VisitedIn(r, c + e) = {} THEN -1
                               ELSE Least(VisitedIn(r, c + e))
                  /\ res.indices[r] = StopOffset(r)
                  /\ res.finished[r] = (StateAt(r, StopOffset(r)) # 2 * c)

\* two sequences, the first through match 1, twice insert state 1 and match 2 up to the
\* terminal state: offsets 0 and 3 recorded, column 3 a gap, two inserted residues from
\* offset 1 on, finished
C13_Witness ==
    /\ CoreDecoded
    /\ BehindLeftFlank
    /\ Len(decoder.indices) = 2
    /\ decoder.model_length = 3
    /\ decoder.state_seqs_max_lik[1] = <<1, 4, 4, 2, 8>>
    /\ decoder.indices[1] = 0
    /\ decoder.result.consensus_columns[1] = <<0, 3, -1>>
    /\ decoder.result.insertion_lens[1] = <<2, 0>>
    /\ decoder.result.insertion_start[1] = <<1, -1>>
    /\ decoder.result.finished[1]

\* a sequence that stops at an unannotated segment is not finished
C13_WitnessUnannotated ==
    /\ CoreDecoded
    /\ BehindLeftFlank
    /\ \E r \in DOMAIN decoder.indices :
          /\ StateAt(r, StopOffset(r)) = 2 * decoder.model_length
          /\ StopOffset(r) > decoder.indices[r]
          /\ ~decoder.result.finished[r]

\* the buckets lines 237-241 put state code q in, for a model with c match states
BucketsOf(q, c) ==
    {b \in {"match", "insert", "unannotated", "end"} :
        \/ b = "match" /\ is_match(q, c)
        \/ b = "insert" /\ is_insert(q, c)
        \/ b = "unannotated" /\ is_unannotated(q, c)
        \/ b = "end" /\ is_at_end(q, c)}

\* the bucket the state codes are documented to have
BucketByRange(q, c) ==
    IF q \in 1..c THEN "match"
    ELSE IF q \in (c + 1)..(2 * c - 1) THEN "insert"
    ELSE IF q = 2 * c THEN "unannotated"
    ELSE "end"

\* C14 (as stated): for L >= 3 every state code in [0, 2L+2] is in exactly one bucket of
\* decode_core: match [1, L], insert [L+1, 2L-1], unannotated 2L, end {2L+1, 2L+2}
C14_ExactlyOneBucket ==
    CoreDecoded =>
        LET c == decoder.model_length
        IN  /\ c >= 3
            /\ \A r \in DOMAIN decoder.indices : CursorState(r) \in 0..(2 * c + 2)
            /\ \A q \in 0..(2 * c + 2) : BucketsOf(q, c) = {BucketByRange(q, c)}

\* C14 (amended): every state code in [1, 2L+2] is in exactly one bucket, the one of its
\* range; the left-flank code 0 is in none, and decode_core does not return when a
\* cursor is on it
C14_ExactlyOneBucketFromOne ==
    CoreDecoded =>
        LET c == decoder.model_length
        IN  /\ c >= 3
            /\ \A r \in DOMAIN decoder.indices : CursorState(r) \in 0..(2 * c + 2)
            /\ \A q \in 1..(2 * c + 2) : BucketsOf(q, c) = {BucketByRange(q, c)}
            /\ BucketsOf(0, c) = {}
            /\ decoder.result.stuck = ~BehindLeftFlank

\* decode_core called with a cursor on the last insert state of a model of length 4,
\* and with another cursor on the left flank
C14_Witness ==
    /\ CoreDecoded
    /\ decoder.model_length = 4
    /\ CursorState(1) = 7
    /\ Len(decoder.indices) = 2
    /\ CursorState(2) = 0
    /\ decoder.result.stuck

\* ------------------------------------------------------------------ claims: apply_mods
\* apply_mods has been called
ModsApplied == mods.op = "apply_mods"

\* the copies an edit plan asks for before the element of original index p (0-based)
CopiesBefore(plan, p) ==
    SumSeq([t \in DOMAIN plan.pos_expand |->
               IF plan.pos_expand[t] = p THEN plan.expansion_lens[t] ELSE 0])

\* the kept elements of x in their order, each after the copies asked for before it
Edited(x, plan, insert_value) ==
    Flatten([p \in 1..(Len(x) + 1) |->
                Repeat(insert_value, CopiesBefore(plan, p - 1))
                    \o (IF p <= Len(x) /\ (p - 1) \notin Elems(plan.pos_discard)
                        THEN <<x[p]>> ELSE <<>>)])

\* C15: for x without del_marker and an edit plan in the index space of x, apply_mods
\* leaves x unchanged and returns the non-discarded elements of x in their order with
\* expansion_lens[i] copies of insert_value immediately before the element of original
\* index pos_expand[i]; the length is len(x) - |pos_discard| + sum(expansion_lens)
C15_ApplyModsEdits ==
    [][mods'.op = "apply_mods" =>
          /\ mods.op = "init"
          /\ mods'.del_marker \notin Elems(mods'.x)
          /\ mods'.x \in {Kernel(mods.plan.L), Kernel(mods.plan.L + 1)}
          /\ mods'.plan = mods.plan
          /\ mods'.result = Edited(mods'.x, mods.plan, mods'.insert_value)
          /\ Len(mods'.result) = Len(mods'.x) - Len(mods.plan.pos_discard)
                                     + SumSeq(mods.plan.expansion_lens)]_vars

\* five elements, the second and the last discarded, two copies before the third element
\* and one copy at the very end
C15_Witness ==
    /\ ModsApplied
    /\ mods.x = <<1, 2, 3, 4, 5>>
    /\ mods.plan.pos_discard = <<1, 3>>
    /\ mods.plan.pos_expand = <<2, 4>>
    /\ mods.plan.expansion_lens = <<2, 1>>
    /\ mods.insert_value = -1
    /\ mods.result = <<1, -1, -1, 3, -1, 5>>

\* the call of the example: x=[1,2,3,4,5], pos_expand=[2], expansion_lens=[1],
\* pos_discard=[0], insert_value=9, del_marker=-9999
ExampleCall ==
    /\ ModsApplied
    /\ mods.x = <<1, 2, 3, 4, 5>>
    /\ mods.plan.pos_expand = <<2>>
    /\ mods.plan.expansion_lens = <<1>>
    /\ mods.plan.pos_discard = <<0>>
    /\ mods.insert_value = 9
    /\ mods.del_marker = -9999

\* C16 (as stated): the call of the example returns [2,3,9,4,5]
C16_ExampleAfterThird == ExampleCall => mods.result = <<2, 3, 9, 4, 5>>

\* C16 (amended): the call of the example returns [2,9,3,4,5]: the copy is placed before
\* the element of original index 2, which is 3
C16_ExampleBeforeThird == ExampleCall => mods.result = <<2, 9, 3, 4, 5>>

C16_Witness == ExampleCall /\ Len(mods.result) = 5

\* ------------------------------------------------------------------ claims: extend_mods
\* extend_mods has been called
ModsExtended == mods.op = "extend_mods"

\* the discarded positions of the call, shifted by k
ShiftedDiscards == {mods.plan.pos_discard[t] + mods.k : t \in DOMAIN mods.plan.pos_discard}

\* the maximal runs i+k..j+k of consecutive shifted discards, as pairs <<first, last>>
DiscardRuns ==
    {<<a, b>> \in ShiftedDiscards \X ShiftedDiscards :
        /\ a <= b
        /\ \A t \in a..b : t \in ShiftedDiscards
        /\ (a - 1) \notin ShiftedDiscards
        /\ (b + 1) \notin ShiftedDiscards}

\* what a run becomes: discards from one position before it (from its first position
\* when that is position 0) up to its last position (one less when that is L-1)
RunDiscards(rn) ==
    (IF rn[1] = 0 THEN rn[1] ELSE rn[1] - 1)..(IF rn[2] = mods.L - 1 THEN rn[2] - 1 ELSE rn[2])

\* the discards all runs become
RunsDiscarded == UNION {RunDiscards(rn) : rn \in DiscardRuns}

\* the positions of the expansions by 1 that runs off both boundaries get
RunsExpanded == {rn[1] - 1 : rn \in {r2 \in DiscardRuns : r2[1] > 0 /\ r2[2] < mods.L - 1}}

\* C17: for a plan without expansions, extend_mods(L, k) turns every maximal run i..j of
\* discards into the discards i+k-1..j+k and one expansion of length 1 at i+k-1; a run
\* with i+k = 0 becomes i+k..j+k, a run with j+k = L-1 becomes i+k-1..j+k-1, a run with
\* both becomes i+k..j+k-1, each of the three without an expansion
C17_DiscardRuns ==
    (ModsExtended /\ mods.plan.pos_expand = <<>>) =>
        /\ mods.result.pos_discard = SortedSeq(RunsDiscarded)
        /\ mods.result.pos_expand = SortedSeq(RunsExpanded)
        /\ mods.result.expansion_lens = Repeat(1, Cardinality(RunsExpanded))

\* L = 4, k = 0, discards 1 and 3: the run 1..1 becomes the discards 0..1 with an
\* expansion at 0, the run 3..3 at the last boundary becomes the discard 2 alone
C17_Witness ==
    /\ ModsExtended
    /\ mods.plan.pos_expand = <<>>
    /\ mods.L = 4 /\ mods.k = 0
    /\ mods.plan.pos_discard = <<1, 3>>
    /\ mods.result.pos_discard = <<0, 1, 2>>
    /\ mods.result.pos_expand = <<0>>
    /\ mods.result.expansion_lens = <<1>>

\* the length of expansion t of the call: the first is one less when all L positions are
\* discarded
PendingLen(t) ==
    IF t = 1 /\ Len(mods.plan.pos_discard) = mods.L
    THEN mods.plan.expansion_lens[t] - 1
    ELSE mods.plan.expansion_lens[t]

\* expansion t keeps its length and adds no discard: it is at the first boundary, behind
\* the last one, or the position before it is discarded already
KeepsLen(t) ==
    LET s == mods.plan.pos_expand[t] + mods.k
    IN  s = 0 \/ s = mods.L \/ (s - 1) \in RunsDiscarded

\* where expansion t ends up, by how much, and the discard it adds
MovedTo(t) ==
    LET s == mods.plan.pos_expand[t] + mods.k IN IF s = 0 THEN 0 ELSE s - 1

MovedLen(t) == IF KeepsLen(t) THEN PendingLen(t) ELSE PendingLen(t) + 1

AddedDiscards == {MovedTo(t) : t \in {u \in DOMAIN mods.plan.pos_expand : ~KeepsLen(u)}}

\* the columns asked for at position p: by the moved expansions and by a discarded run
ExpectedAt(p) ==
    SumSeq([t \in DOMAIN mods.plan.pos_expand |-> IF MovedTo(t) = p THEN MovedLen(t) ELSE 0])
        + (IF p \in RunsExpanded THEN 1 ELSE 0)

\* C18: extend_mods(L, k) turns every expansion at i by l into a discard at i+k-1 and an
\* expansion by l+1 at i+k-1; into an expansion by l at i+k without a discard when
\* i+k = 0; into an expansion by l at i+k-1 without an added discard when i+k = L or
\* i+k-1 is discarded already; the first expansion is one shorter when all L positions
\* are discarded. The discarded runs keep their discards and expansions (C17).
C18_Expansions ==
    (ModsExtended /\ mods.plan.pos_expand # <<>>) =>
        /\ mods.result.pos_discard = SortedSeq(RunsDiscarded \cup AddedDiscards)
        /\ Len(mods.result.pos_expand) = Len(mods.result.expansion_lens)
        /\ \A p \in (-1)..(mods.L + 1) : CopiesBefore(mods.result, p) = ExpectedAt(p)

\* L = 4, k = 0: the expansion at 0 by 2 stays, the expansion at 2 by 1 becomes a
\* discard at 1 and an expansion by 2 at 1, the expansion at 4 by 1 moves to 3
C18_Witness ==
    /\ ModsExtended
    /\ mods.L = 4 /\ mods.k = 0
    /\ mods.plan.pos_discard = <<>>
    /\ mods.plan.pos_expand = <<0, 2, 4>>
    /\ mods.plan.expansion_lens = <<1, 1, 1>>
    /\ mods.result.pos_expand = <<0, 1, 3>>
    /\ mods.result.expansion_lens = <<1, 2, 1>>
    /\ mods.result.pos_discard = <<1>>

\* all L positions discarded and an expansion pending: the first expansion is one shorter
C18_WitnessAllDiscarded ==
    /\ ModsExtended
    /\ mods.L = 3 /\ mods.k = 0
    /\ mods.plan.pos_discard = <<0, 1, 2>>
    /\ mods.plan.pos_expand = <<1>>
    /\ mods.plan.expansion_lens = <<3>>
    /\ mods.result.pos_expand = <<0>>
    /\ mods.result.expansion_lens = <<2>>
    /\ mods.result.pos_discard = <<0, 1>>

\* ------------------------------------------------------------------ claims: get_discard_or_expand_positions
\* get_discard_or_expand_positions has been called
Positioned == positions.op = "get_discard_or_expand_positions"

\* the hits: block b of sequence q, unless sequence q was finished before block b
Hits ==
    {h \in (1..positions.metadata.num_repeats) \X (1..positions.n) :
        h[1] = 1 \/ ~positions.metadata.finished[h[1] - 1][h[2]]}

\* the insertion lengths at position p (0 the left flank, 1..L-1 the insert positions,
\* L the right flank), one per sequence for a flank and one per hit otherwise; what is
\* no hit counts 0
LensAt(p) ==
    IF p = 0 THEN <<positions.metadata.left_flank_len>>
    ELSE IF p = positions.L THEN <<positions.metadata.right_flank_len>>
    ELSE [b \in 1..positions.metadata.num_repeats |->
             [q \in 1..positions.n |->
                 IF <<b, q>> \in Hits THEN positions.metadata.insertion_lens[b][q][p] ELSE 0]]

\* what position p is averaged over: the sequences for a flank, the hits otherwise
Denominator(p) ==
    IF p = 0 \/ p = positions.L THEN positions.n ELSE Cardinality(Hits)

\* the number of non-empty insertions at p, and the residues inserted at p in all
Openings(p) ==
    Cardinality({h \in (DOMAIN LensAt(p)) \X (1..positions.n) : LensAt(p)[h[1]][h[2]] > 0})

Inserted(p) == SumSeq([b \in DOMAIN LensAt(p) |-> SumSeq(LensAt(p)[b])])

\* rule A over den observations: the fraction with a non-empty insertion strictly
\* exceeds ins_t
RuleAOver(p, den) == Openings(p) * positions.ins_t[2] > positions.ins_t[1] * den

RuleA(p) == RuleAOver(p, Denominator(p))

\* the ceiling of the mean insertion length at p over den observations, zeros included
CeilMeanOver(p, den) ==
    CHOOSE c \in 0..Inserted(p) : c * den >= Inserted(p) /\ (c - 1) * den < Inserted(p)

CeilMean(p) == CeilMeanOver(p, Denominator(p))

\* rule B: at least k sequences have an insertion longer than ins_long at p
RuleB(p) ==
    Cardinality({q \in 1..positions.n :
                    \E b \in DOMAIN LensAt(p) : LensAt(p)[b][q] > positions.ins_long})
        >= positions.k

\* the expansion length reported for position p
ReportedLen(p) ==
    positions.result.expansion_lens[FirstIndex(positions.result.pos_expand, p)]

Flagged == Elems(positions.result.pos_expand)

\* C19 (as stated): a position p in [0, L] is flagged by rule A exactly when the fraction
\* of hits with a non-empty insertion at p strictly exceeds ins_t, and the length
\* reported for it is the ceiling of the mean insertion length at p (zeros included,
\* empty hits of finished sequences not counted); with ins_t = 0.5 a position with
\* insertions in exactly 60% of the hits is the only one flagged when no other is over
\* a threshold
C19_RuleAOverHits ==
    Positioned =>
        LET hits == Cardinality(Hits) IN
        /\ \A p \in 0..positions.L :
              ~RuleB(p) =>
                  /\ (p \in Flagged) = RuleAOver(p, hits)
                  /\ RuleAOver(p, hits) => ReportedLen(p) = CeilMeanOver(p, hits)
        /\ \A p \in 0..positions.L :
              (/\ positions.ins_t = <<1, 2>>
               /\ Openings(p) * 5 = 3 * hits
               /\ \A p2 \in (0..positions.L) \ {p} : ~RuleAOver(p2, hits) /\ ~RuleB(p2))
                  => positions.result.pos_expand = <<p>>

\* exactly 60% of the observations at p have an insertion
SixtyPercent(p) == Openings(p) * 5 = 3 * Denominator(p)

\* C19 (amended): an insert position p in [1, L-1] is flagged by rule A exactly when the
\* fraction of hits with a non-empty insertion at p strictly exceeds ins_t, a flank
\* (p = 0, p = L) exactly when the fraction of sequences with a non-empty flank does;
\* the length reported is the ceiling of the mean insertion length at p over the hits,
\* for a flank over the sequences; with ins_t = 0.5 a position with insertions in
\* exactly 60% is the only one flagged when no other is over a threshold
C19_RuleA ==
    Positioned =>
        /\ \A p \in 0..positions.L :
              ~RuleB(p) =>
                  /\ (p \in Flagged) = RuleA(p)
                  /\ RuleA(p) => ReportedLen(p) = CeilMean(p)
        /\ \A p \in 0..positions.L :
              (/\ positions.ins_t = <<1, 2>>
               /\ SixtyPercent(p)
               /\ \A p2 \in (0..positions.L) \ {p} : ~RuleA(p2) /\ ~RuleB(p2))
                  => positions.result.pos_expand = <<p>>

\* five hits, three of them with an insertion at an insert position, a mean that is no
\* integer, nothing else over a threshold: the position alone is flagged
C19_Witness ==
    /\ Positioned
    /\ positions.ins_t = <<1, 2>>
    /\ \E p \in 1..(positions.L - 1) :
          /\ SixtyPercent(p)
          /\ Denominator(p) = 5
          /\ Inserted(p) % 5 # 0
          /\ ~RuleB(p)
          /\ positions.result.pos_expand = <<p>>
          /\ positions.result.expansion_lens = <<CeilMean(p)>>

\* more hits than sequences and a left flank in more than half of the sequences, though
\* in no more than half of the hits: the left flank is flagged
C19_WitnessFlank ==
    /\ Positioned
    /\ positions.ins_t = <<1, 2>>
    /\ Cardinality(Hits) > positions.n
    /\ RuleA(0) /\ ~RuleAOver(0, Cardinality(Hits)) /\ ~RuleB(0)
    /\ 0 \in Flagged

\* C20: pos_expand is the strictly increasing union of the positions of rule A and of
\* rule B (at least k sequences with an insertion longer than ins_long, a sequence
\* counted once), expansion_lens is parallel to it, and a position of rule B, flagged by
\* rule A or not, has the length ins_long
C20_Union ==
    Positioned =>
        /\ positions.result.pos_expand =
               SortedSeq({p \in 0..positions.L : RuleA(p) \/ RuleB(p)})
        /\ \A j \in 1..(Len(positions.result.pos_expand) - 1) :
               positions.result.pos_expand[j] < positions.result.pos_expand[j + 1]
        /\ Len(positions.result.expansion_lens) = Len(positions.result.pos_expand)
        /\ \A p \in Flagged : RuleB(p) => ReportedLen(p) = positions.ins_long

\* a position flagged by both rules whose mean length differs from ins_long, next to a
\* position flagged by rule A alone
C20_Witness ==
    /\ Positioned
    /\ \E p \in Flagged :
          /\ RuleA(p) /\ RuleB(p)
          /\ CeilMean(p) # positions.ins_long
          /\ ReportedLen(p) = positions.ins_long
    /\ \E p \in Flagged : RuleA(p) /\ ~RuleB(p)

\* a sequence with two long insertions at one position counts once for rule B
C20_WitnessCountedOnce ==
    /\ Positioned
    /\ positions.k = 2
    /\ \E p \in 1..(positions.L - 1) :
          /\ ~RuleB(p)
          /\ Cardinality({h \in Hits : LensAt(p)[h[1]][h[2]] > positions.ins_long}) >= 2

\* the hits in which match column m (0-based) is a gap
GapsAt(m) == {h \in Hits : positions.metadata.consensus[h[1]][h[2]][m + 1] = -1}

\* column m is a gap in more than del_t of the hits
DeletedOften(m) ==
    Cardinality(GapsAt(m)) * positions.del_t[2] > positions.del_t[1] * Cardinality(Hits)

\* the least and the greatest prior value over the columns of the model
MinPrior ==
    CHOOSE v \in Elems(positions.prior_val) : \A w \in Elems(positions.prior_val) : v <= w

MaxPrior ==
    CHOOSE v \in Elems(positions.prior_val) : \A w \in Elems(positions.prior_val) : v >= w

\* the prior of column m is at or below
\* MinPrior + match_prior_threshold * (MaxPrior - MinPrior)
LowPrior(m) ==
    (positions.prior_val[m + 1] - MinPrior) * positions.match_prior_threshold[2]
        <= positions.match_prior_threshold[1] * (MaxPrior - MinPrior)

Discarded == Elems(positions.result.pos_discard)

C21_WitnessEmptyHits ==
    /\ Positioned
    /\ \E m \in 0..(positions.L - 1) :
          /\ LowPrior(m) /\ ~DeletedOften(m) /\ m \notin Discarded
          /\ Cardinality({h \in (1..positions.metadata.num_repeats) \X (1..positions.n) :
                             positions.metadata.consensus[h[1]][h[2]][m + 1] = -1})
                 * positions.del_t[2]
               > positions.del_t[1] * positions.metadata.num_repeats * positions.n

\* ------------------------------------------------------------------ claims: SequenceDataset
\* the identifiers of the records of the file
FileIds == [t \in DOMAIN dataset.file |-> dataset.file[t].id]

DuplicatedId == \E a, b \in DOMAIN FileIds : a # b /\ FileIds[a] = FileIds[b]

EmptyId == \E t \in DOMAIN FileIds : FileIds[t] = ""

DifferentLengths ==
    \E a, b \in DOMAIN dataset.file : Len(dataset.file[a].seq) # Len(dataset.file[b].seq)

\* validate_dataset has been called on a SequenceDataset
Validated == dataset.call.op = "validate_dataset"

\* C22: validate_dataset fails for a file of one sequence unless single_seq_ok is set,
\* always for a file of no sequence, for an empty identifier unless empty_seq_id_ok is
\* set and for a duplicated identifier unless dublicate_seq_id_ok is set, so that a file
\* with records is loaded and the flags decide; an AlignedDataset of records of
\* different lengths always fails
C22_FlagsDecide ==
    /\ Validated =>
          (dataset.call.raised # "") =
              (\/ Len(dataset.file) = 1 /\ ~dataset.call.single_seq_ok
               \/ Len(dataset.file) = 0
               \/ EmptyId /\ ~dataset.call.empty_seq_id_ok
               \/ DuplicatedId /\ ~dataset.call.dublicate_seq_id_ok)
    /\ (dataset.cls = "SequenceDataset" /\ dataset.pc = "raised") => Len(dataset.file) = 0
    /\ (dataset.cls = "AlignedDataset" /\ DifferentLengths) => dataset.pc = "raised"

\* get_encoded_seq(i, remove_gaps=True) has returned
EncodedNoGaps ==
    /\ dataset.call.op = "get_encoded_seq"
    /\ dataset.call.remove_gaps
    /\ dataset.call.raised = ""

\* the sequence string of the record that was encoded
EncodedSeq == dataset.file[dataset.call.i + 1].seq

\* the upper-case letter of a character
UpperCase(aa) == CASE aa = "c" -> "C" [] aa = "b" -> "B" [] OTHER -> aa

\* the string upper-cased, B, Z and J replaced by X, the gap symbols removed
FoldedResidues(seq) ==
    SelectSeq([t \in DOMAIN seq |->
                  IF UpperCase(seq[t]) \in {"B", "Z", "J"} THEN "X" ELSE UpperCase(seq[t])],
              LAMBDA aa : aa \notin {"-", "."})

\* C24: the codes get_encoded_seq returns with remove_gaps = true, each looked up in
\* the alphabet, spell the original string upper-cased, with B, Z and J replaced by X
\* and the gap symbols '-' and '.' removed
C24_EncodeRoundTrip ==
    EncodedNoGaps =>
        /\ \A t \in DOMAIN dataset.call.result :
              dataset.call.result[t] \in 0..(Len(alphabet) - 1)
        /\ [t \in DOMAIN dataset.call.result |-> alphabet[dataset.call.result[t] + 1]]
               = FoldedResidues(EncodedSeq)

\* a string with a lower-case letter, a folded residue and both gap symbols
C24_Witness ==
    /\ EncodedNoGaps
    /\ \E t \in DOMAIN EncodedSeq : EncodedSeq[t] = "c"
    /\ \E t \in DOMAIN EncodedSeq : UpperCase(EncodedSeq[t]) \in {"B", "Z", "J"}
    /\ \E t \in DOMAIN EncodedSeq : EncodedSeq[t] \in {"-", "."}
    /\ Len(dataset.call.result) = 2
    /\ 20 \in Elems(dataset.call.result)

\* ------------------------------------------------------------------ claims: AlignedDataset
\* an AlignedDataset has been constructed
Aligned == dataset.pc = "AlignedDataset"

\* the string upper-cased, B, Z and J replaced by X, both gap symbols written '-'
GapRetaining(seq) ==
    [t \in DOMAIN seq |->
        IF seq[t] \in {"-", "."} THEN "-"
        ELSE IF UpperCase(seq[t]) \in {"B", "Z", "J"} THEN "X" ELSE UpperCase(seq[t])]

\* the rows task ii's process has written when the task is done: its own row alone
WritesOwnRow ==
    dataset.pc \in {"pool", "AlignedDataset"} =>
        \A ch \in DOMAIN dataset.copies : \A r \in DOMAIN dataset.copies[ch] :
            dataset.copies[ch][r] # dataset.msa_matrix[r]
                => /\ chunk_of(r - 1, dataset.obj.num_seq, dataset.threads) = ch
                   /\ (r - 1) \notin dataset.todo

\* C29: after an AlignedDataset is constructed with a pool of any size, row i of its
\* matrix is the gap-retaining encoding of sequence i for every i: a task writes only
\* its own row and every task's write is in the dataset's matrix once the pool is joined
C29_RowsWritten ==
    /\ WritesOwnRow
    /\ Aligned =>
          \A r \in DOMAIN dataset.file :
              [t \in DOMAIN dataset.obj.msa_matrix[r] |->
                  alphabet[dataset.obj.msa_matrix[r][t] + 1]]
                  = GapRetaining(dataset.file[r].seq)

\* get_column_map(i) has returned
Mapped == dataset.call.op = "get_column_map"

\* the columns (0-based) of the residues of a row, in order
ResidueColumns(seq) ==
    SelectSeq([t \in DOMAIN seq |-> t - 1], LAMBDA col : seq[col + 1] \notin {"-", "."})

\* C23: get_column_map(i) is strictly increasing, has one entry per non-gap residue of
\* sequence i, and its j-th entry is the alignment column of the j-th non-gap residue
C23_ColumnMap ==
    Mapped =>
        /\ dataset.call.result = ResidueColumns(dataset.file[dataset.call.i + 1].seq)
        /\ \A j \in 1..(Len(dataset.call.result) - 1) :
              dataset.call.result[j] < dataset.call.result[j + 1]

\* ------------------------------------------------------------------ claims: MsaHmmCell
\* the cell takes a step of its scan
CellSteps == cell'.raised = "" /\ cell'.step = cell.step + 1

\* the step taken belongs to a scan before which recurrent_init was called, and
\* recurrent_init was not called between two steps of the scan
ScanPrepared == cell'.scan_prepared /\ ~cell'.disturbed

\* the emission probabilities of the step taken, for batch entry b
StepEmissions(b) == emission_probs(cell.params, cell.inputs[cell.step + 1][b])

\* x divided by its sum
SumsToOne(x) == [q \in DOMAIN x |-> FracDiv(x[q], reduce_sum(x))]

\* the forward vector of a sequence-initial step: the emission probabilities times the
\* carried initial distribution
InitialForward(b) == multiply(StepEmissions(b), make_initial_distribution(cell.params))

\* the forward vector of a later step: the emission probabilities times the previous
\* forward vector moved along the transitions
LaterForward(b) ==
    multiply(StepEmissions(b), transitioner(cell.params, cell.states[b].scaled_forward))

\* C25: provided recurrent_init is called once before a scan, exactly the first step of
\* the scan is sequence-initial (emission probabilities times the carried initial
\* distribution, no transition) and every later step applies the transition to the
\* previous forward vector
C25_FirstStepInitial ==
    [][(CellSteps /\ ScanPrepared) =>
          /\ cell'.branch = IF cell.step = 0 THEN "initial" ELSE "transition"
          /\ \A b \in DOMAIN cell.states :
                cell'.states[b].scaled_forward =
                    SumsToOne(IF cell.step = 0 THEN InitialForward(b) ELSE LaterForward(b))]_vars

\* a second scan of the cell, prepared by recurrent_init like the first, has taken its
\* first step as sequence-initial and two later steps with the transition
C25_Witness ==
    /\ cell.scans = "later"
    /\ cell.scan_prepared /\ ~cell.disturbed
    /\ cell.step = Len(cell.inputs)
    /\ cell.step >= 3
    /\ cell.branch = "transition"
    /\ \A b \in DOMAIN cell.states : nan \notin Elems(cell.states[b].scaled_forward)

\* a scan that recurrent_init was not called before: its first step applies the
\* transition
C25_WitnessUnprepared ==
    /\ cell.scans = "later"
    /\ ~cell.scan_prepared
    /\ cell.step = 1
    /\ cell.branch = "transition"

\* the normalizer of the step taken: the sum of the forward vector before scaling
Normalizer(b) ==
    reduce_sum(IF cell'.branch = "initial"
               THEN multiply(StepEmissions(b), cell.states[b].scaled_forward)
               ELSE LaterForward(b))

\* C26: after every step of the cell (of a scan that recurrent_init does not
\* interrupt) the scaled forward vector sums to 1 over the states for every batch
\* entry, and the running log-likelihood is the previous one plus the logarithm of
\* the normalizer of the step
C26_ScaledForwardSumsToOne ==
    [][(CellSteps /\ ~cell'.disturbed) =>
          \A b \in DOMAIN cell.states :
              /\ reduce_sum(cell'.states[b].scaled_forward) = <<1, 1>>
              /\ \A q \in DOMAIN cell'.states[b].scaled_forward :
                    cell'.states[b].scaled_forward[q][1] >= 0
              /\ cell'.states[b].loglik = Append(cell.states[b].loglik, Normalizer(b))]_vars

\* a scan of three steps over two sequences is done: each vector sums to 1, three
\* normalizers were accumulated and those of the longer sequence are below 1
C26_Witness ==
    /\ cell.scans # "none"
    /\ ~cell.disturbed
    /\ cell.step = Len(cell.inputs)
    /\ cell.step >= 3
    /\ Len(cell.states) = 2
    /\ \A b \in DOMAIN cell.states :
          /\ reduce_sum(cell.states[b].scaled_forward) = <<1, 1>>
          /\ Len(cell.states[b].loglik) = cell.step
    /\ cell.inputs[2][1] # terminal_symbol
    /\ \A t \in DOMAIN cell.states[1].loglik :
          cell.states[1].loglik[t][1] < cell.states[1].loglik[t][2]

\* ------------------------------------------------------------------ claims: get_insertion_block
\* the run of row r as the block holds it: the residues in order, as insertion codes
InsertedRun(r) ==
    [t \in 1..ins_block.lens[r] |->
        ins_block.sequences[r][ins_block.starts[r] + t] + fasta_s]

\* the gap padding of row r of the block
RunPadding(r) == Repeat(fasta_s - 1 + fasta_s, ins_block.maxlen - ins_block.lens[r])

\* row r holds its run in the first lens[r] columns and gap padding after it
LeftAligned(r) == ins_block.block[r] = InsertedRun(r) \o RunPadding(r)

\* row r holds its run in the last lens[r] columns and gap padding before it
RightAligned(r) == ins_block.block[r] = RunPadding(r) \o InsertedRun(r)

\* C27: for all run lengths with 0 <= lens[i] <= maxlen, whether or not the batch holds
\* a run of length maxlen, get_insertion_block with align_to_right places the run of
\* sequence i in the last lens[i] columns of its row, in order, with gap padding
\* before it, and without align_to_right in the first lens[i] columns with gap padding
\* after it
C27_RunPlacement ==
    ins_block.op = "get_insertion_block" =>
        \A r \in DOMAIN ins_block.block :
            IF ins_block.align_to_right THEN RightAligned(r) ELSE LeftAligned(r)

\* the part of C27 that holds: left-aligned blocks, and right-aligned blocks of a batch
\* that holds a run of length maxlen
C27_PlacementWithFullRun ==
    (/\ ins_block.op = "get_insertion_block"
     /\ (ins_block.align_to_right => fill_passes(ins_block.lens) = ins_block.maxlen)) =>
        \A r \in DOMAIN ins_block.block :
            IF ins_block.align_to_right THEN RightAligned(r) ELSE LeftAligned(r)

\* ------------------------------------------------------------------ claims: decode
\* the part of a state path a state code belongs to
PathPart(q, c) ==
    IF q = 0 THEN "left flank"
    ELSE IF q = 2 * c THEN "unannotated"
    ELSE IF q = 2 * c + 1 THEN "right flank"
    ELSE IF q = 2 * c + 2 THEN "terminal"
    ELSE "core"

\* the parts that may follow a part on a well-formed path
PartsAfter(part) ==
    IF part = "left flank" THEN {"left flank", "core"}
    ELSE IF part = "core" THEN {"core", "unannotated", "right flank", "terminal"}
    ELSE IF part = "unannotated" THEN {"unannotated", "core"}
    ELSE IF part = "right flank" THEN {"right flank", "terminal"}
    ELSE {"terminal"}

\* a run of left-flank states, then one or more core segments separated by runs of the
\* unannotated-segment state, then a run of right-flank states, then the terminal state
WellFormedPath(path, c) ==
    /\ PathPart(path[1], c) \in {"left flank", "core"}
    /\ \A t \in 1..(Len(path) - 1) : PathPart(path[t + 1], c) \in PartsAfter(PathPart(path[t], c))
    /\ PathPart(path[Len(path)], c) = "terminal"

WellFormedPaths ==
    \A r \in DOMAIN decode_call.state_seqs_max_lik :
        WellFormedPath(decode_call.state_seqs_max_lik[r], decode_call.model_length)

\* the runs of the unannotated-segment state on a path
UnannotatedRuns(path, c) ==
    Cardinality({t \in DOMAIN path : path[t] = 2 * c /\ (t = 1 \/ path[t - 1] # 2 * c)})

\* every sequence of a core block reports finished
AllFinished(block) == \A r \in DOMAIN block.finished : block.finished[r]

\* decode goes from the left flank to decode_core, from decode_core to the decode_flank
\* of the unannotated segment and back until every sequence reports finished, then to
\* the right flank and returns
DecodeAlternates ==
    decode_call'.pc # decode_call.pc =>
        \/ decode_call.pc = "left_flank" /\ decode_call'.pc = "decode_core"
        \/ /\ decode_call.pc = "decode_core"
           /\ decode_call'.pc =
                 IF AllFinished(decode_call'.core_blocks[Len(decode_call'.core_blocks)])
                 THEN "right_flank" ELSE "unannotated"
        \/ decode_call.pc = "unannotated" /\ decode_call'.pc = "decode_core"
        \/ decode_call.pc = "right_flank" /\ decode_call'.pc = "returned"

\* C28: on state paths that are each a run of left-flank states, core segments
\* separated by runs of the unannotated-segment state, a run of right-flank states and
\* the terminal state, decode terminates; it alternates decode_core and the decode_flank
\* of the unannotated segment until every sequence reports finished, and returns
\* exactly one more core block than unannotated segments
C28_DecodeTerminates ==
    /\ [](WellFormedPaths => <>(decode_call.pc = "returned"))
    /\ [][WellFormedPaths => DecodeAlternates]_vars
    /\ [](WellFormedPaths /\ decode_call.pc = "returned" =>
            /\ Len(decode_call.core_blocks) = Len(decode_call.unannotated_segments) + 1
            /\ AllFinished(decode_call.core_blocks[Len(decode_call.core_blocks)])
            /\ \A b \in 1..(Len(decode_call.core_blocks) - 1) :
                  ~AllFinished(decode_call.core_blocks[b]))

\* decode has returned for two well-formed paths, one with two runs of the unannotated
\* state and one with one: three core blocks and two unannotated segments
C28_Witness ==
    /\ decode_call.pc = "returned"
    /\ WellFormedPaths
    /\ Len(decode_call.state_seqs_max_lik) = 2
    /\ UnannotatedRuns(decode_call.state_seqs_max_lik[1], decode_call.model_length) = 2
    /\ Len(decode_call.core_blocks) = 3
    /\ Len(decode_call.unannotated_segments) = 2

\* a path that is not well-formed, a left-flank state after a match: decode_core is on
\* a pass that changes nothing and decode does not return
C28_WitnessNeverReturns ==
    /\ decode_call.pc = "decode_core"
    /\ ~WellFormedPaths
    /\ ~ENABLED <<DecodeLoopNext>>_vars

\* what the calls of the loop of decode return is what decode_core and decode_flank,
\* taken as functions of the paths and the cursors, return
DecodeLoopAgrees ==
    decode_call.pc = "returned" =>
        LET d == decode(decode_call.model_length, decode_call.state_seqs_max_lik) IN
        /\ Len(d.core_blocks) = Len(decode_call.core_blocks)
        /\ \A b \in DOMAIN d.core_blocks :
              /\ d.core_blocks[b].consensus_columns = decode_call.core_blocks[b].consensus_columns
              /\ d.core_blocks[b].insertion_lens = decode_call.core_blocks[b].insertion_lens
              /\ d.core_blocks[b].insertion_start = decode_call.core_blocks[b].insertion_start
              /\ d.core_blocks[b].finished = decode_call.core_blocks[b].finished
        /\ Len(d.unannotated_segments) = Len(decode_call.unannotated_segments)
        /\ \A b \in DOMAIN d.unannotated_segments :
              /\ d.unannotated_segments[b].insertion_lens = decode_call.unannotated_segments[b].insertion_lens
              /\ d.unannotated_segments[b].insertion_start = decode_call.unannotated_segments[b].insertion_start
        /\ d.left_flank.insertion_lens = decode_call.left_flank.insertion_lens
        /\ d.right_flank.insertion_lens = decode_call.right_flank.insertion_lens
        /\ d.right_flank.insertion_start = decode_call.right_flank.insertion_start

\* ------------------------------------------------------------------ claims: get_batch_alignment
\* the codes of a row that are neither a gap of a match column, a gap of an insertion
\* column nor a block separator
ResidueCodes(row) ==
    SelectSeq(row, LAMBDA v : v \notin {fasta_s - 1, 2 * fasta_s - 1, 2 * fasta_s})

\* a row read left to right with gap and separator codes dropped and insertion codes
\* mapped back to their base residue code
ReadBack(row) ==
    [t \in DOMAIN ResidueCodes(row) |->
        IF ResidueCodes(row)[t] >= fasta_s THEN ResidueCodes(row)[t] - fasta_s
        ELSE ResidueCodes(row)[t]]

\* the raw sequence of row t of the batch of the call
RawSeqOfRow(t) == fasta_file.raw_seqs[alignment.indices[call.batch_indices[t] + 1] + 1]

\* C30: for every model and every decoded sequence, the row returned by
\* get_batch_alignment, read left to right with gap and separator codes dropped and
\* insertion codes mapped back to their base residue code, is the raw sequence: every
\* residue once and in its original order
C30_RowsReadBackRaw ==
    Rendered("get_batch_alignment") =>
        \A t \in DOMAIN call.result : ReadBack(call.result[t]) = RawSeqOfRow(t)

\* a batch of two sequences rendered with separators: the first with an unannotated
\* segment between two core blocks, the second with a left flank; the rows hold gaps
C30_Witness ==
    /\ Rendered("get_batch_alignment")
    /\ call.add_block_sep
    /\ Len(call.batch_indices) = 2
    /\ CallMetaData.num_repeats = 2
    /\ CallMetaData.unannotated_segments_len[1][1] > 0
    /\ CallMetaData.left_flank_len[2] > 0
    /\ \A t \in DOMAIN call.result : Len(ReadBack(call.result[t])) < Len(call.result[t])

\* a sequence with an insertion inside the core block has been rendered
C30_WitnessInsertion ==
    /\ Rendered("get_batch_alignment")
    /\ \E cc \in DOMAIN CallMetaData.insertion_lens[1][1] :
          CallMetaData.insertion_lens[1][1][cc] > 0

\* a sequence with a left and a right flank has been rendered
C30_WitnessRightFlank ==
    /\ Rendered("get_batch_alignment")
    /\ CallMetaData.right_flank_len[1] > 0
    /\ CallMetaData.left_flank_len[1] > 0

====
